---- MODULE Spec2Model ----
(***************************************************************************)
(* A model of the database layer of azvaliev/sql: the connection manager   *)
(* (conn.ConnectionManager), the statement transformer                     *)
(* (DBClient.transformStatement) and the start of DBClient.Query.          *)
(*                                                                         *)
(* Text is a sequence of one-character strings, so that trimming, case     *)
(* folding, semicolon removal and the regular expressions are computed     *)
(* character by character, as the Go code computes them.                   *)
(***************************************************************************)
EXTENDS Integers, Sequences, FiniteSets, TLC

(***************************************************************************)
(* Bounds of the model.                                                    *)
(***************************************************************************)
\* application-level connections (*sqlx.Conn) ever acquired in one run
MaxConns == 3
\* pools (*sqlx.DB) ever opened in one run, the first one included
MaxPools == 2
\* rows a row iterator delivers, and rows of a QueryResult
MaxRows == 2
\* the size a QueryHistory is made with
MaxSize == 3
\* entries added to a QueryHistory in one run
MaxEntries == 4

(***************************************************************************)
(* Characters and text.                                                    *)
(***************************************************************************)
LowerLetters ==
    <<"a","b","c","d","e","f","g","h","i","j","k","l","m",
      "n","o","p","q","r","s","t","u","v","w","x","y","z">>

UpperLetters ==
    <<"A","B","C","D","E","F","G","H","I","J","K","L","M",
      "N","O","P","Q","R","S","T","U","V","W","X","Y","Z">>

Digits == {"0","1","2","3","4","5","6","7","8","9"}

Range(s) == { s[i] : i \in DOMAIN s }

\* unicode.IsSpace, on the characters of the model's alphabet
IsSpace(c) == c \in {" ", "\t", "\n", "\r"}

\* the class \w of Go's regexp: [0-9A-Za-z_]
IsWord(c) == c \in Range(LowerLetters) \cup Range(UpperLetters) \cup Digits \cup {"_"}

UpperChar(c) ==
    IF c \in Range(LowerLetters)
    THEN UpperLetters[CHOOSE i \in DOMAIN LowerLetters : LowerLetters[i] = c]
    ELSE c

\* strings.ToUpper
ToUpper(s) == [i \in DOMAIN s |-> UpperChar(s[i])]

\* strings.TrimSpace: drops the leading and the trailing white space
TrimSpace(s) ==
    LET keep == { i \in DOMAIN s : ~IsSpace(s[i]) }
    IN  IF keep = {} THEN <<>>
        ELSE LET lo == CHOOSE i \in keep : \A j \in keep : i <= j
                 hi == CHOOSE i \in keep : \A j \in keep : j <= i
             IN  SubSeq(s, lo, hi)

IsNot(c, d) == c # d

\* strings.ReplaceAll(s, old, "") for a one-character old: every occurrence goes
RemoveAll(s, old) == SelectSeq(s, LAMBDA c : IsNot(c, old))

\* the number of leading \w characters of s
RECURSIVE WordPrefixLen(_)
WordPrefixLen(s) ==
    IF s = <<>> \/ ~IsWord(Head(s)) THEN 0 ELSE 1 + WordPrefixLen(Tail(s))

DropFirst(s, n) == SubSeq(s, n + 1, Len(s))

\* an optional single character at the front of s: "? or ;? of the patterns
SkipOptional(s, c) == IF s # <<>> /\ Head(s) = c THEN Tail(s) ELSE s

(***************************************************************************)
(* The statement patterns (statement.go:37-69).                            *)
(***************************************************************************)
DESCRIBE_KW == <<"D","E","S","C","R","I","B","E"," ">>

SHOW_INDEXES_KW ==
    <<"S","H","O","W"," ","I","N","D","E","X","E","S"," ","F","R","O","M"," ">>

SHOW_TABLES == <<"S","H","O","W"," ","T","A","B","L","E","S">>

NoMatch == [matched |-> FALSE, tableName |-> <<>>]

\* FindStringSubmatch of (?i)^<kw>"?(\w+)"?;?$ on text: the keyword in any
\* letter case, an optional quote, one or more word characters (the group),
\* an optional quote, an optional semicolon, the end of the text.
MatchTableCommand(kw, text) ==
    IF Len(text) < Len(kw) \/ ToUpper(SubSeq(text, 1, Len(kw))) # kw
    THEN NoMatch
    ELSE LET afterKw    == DropFirst(text, Len(kw))
             afterQuote == SkipOptional(afterKw, "\"")
             n          == WordPrefixLen(afterQuote)
             afterName  == DropFirst(afterQuote, n)
             rest       == SkipOptional(SkipOptional(afterName, "\""), ";")
         IN  IF n >= 1 /\ rest = <<>>
             THEN [matched |-> TRUE, tableName |-> SubSeq(afterQuote, 1, n)]
             ELSE NoMatch

describeRegExp(text) == MatchTableCommand(DESCRIBE_KW, text)

showIndexesRegExp(text) == MatchTableCommand(SHOW_INDEXES_KW, text)

statementIsDescribe(statement) == describeRegExp(TrimSpace(statement))

statementIsShowIndexes(statement) == showIndexesRegExp(TrimSpace(statement))

statementIsShowTables(statement) ==
    RemoveAll(ToUpper(TrimSpace(statement)), ";") = SHOW_TABLES

(***************************************************************************)
(* The program's state.                                                    *)
(*   sqlDB, conn   ConnectionManager.sqlDB and .conn: a pool id and a      *)
(*                 connection id, NIL for a nil pointer                    *)
(*   dsnManager    the DSNManager's Flavor, SafeMode and DatabaseName      *)
(*   pools, conns  what the driver holds: every pool opened and every      *)
(*                 connection acquired so far, by id                       *)
(*   status        "running", "panicked" (a nil pointer dereference) or    *)
(*                 "blocked" (Connx waiting for the pool's one connection) *)
(*   call          the last call made: operation, argument, returned       *)
(*                 handle and plan, error, and the driver events it caused *)
(*   fetched       the last run of Query's row loop: what the driver       *)
(*                 answered and what Query returned                        *)
(*   formatted     the last QueryResult formatted, and the bytes written   *)
(*   built         the last DSNOptions a DSN was asked of, and the DSN     *)
(*   history       the QueryHistory of the input box, and what its last    *)
(*                 call returned                                           *)
(***************************************************************************)
VARIABLES sqlDB, conn, dsnManager, pools, conns, status, call,
          fetched, formatted, built, history

vars == <<sqlDB, conn, dsnManager, pools, conns, status, call,
          fetched, formatted, built, history>>

\* the parts of the program a specification leaves alone
Idle == [op |-> "none"]

NIL == 0

MySQL == "mysql"

PostgreSQL == "pgx"

\* a DBFlavor that is neither of the two, as a DSNManager may report
OtherFlavor == "sqlite3"

Flavors == {MySQL, PostgreSQL, OtherFlavor}

DatabaseNames == {"test", "other"}

\* the rewritten queries: one token each, unlike any text a user can type
postgresShowTablesQuery == <<"<postgresShowTablesQuery>">>

postgresShowIndexesQuery == <<"<postgresShowIndexesQuery>">>

postgresDescribeQuery == <<"<postgresDescribeQuery>">>

postgresTableExistQuery == <<"<postgresTableExistQuery>">>

safeUpdatesStatement == <<"SET SQL_SAFE_UPDATES = 1">>

\* errors: kind "nil" is the nil error
Err(kind, command, flavor) == [kind |-> kind, command |-> command, flavor |-> flavor]

NoErr == Err("nil", "", "")

\* *StatementWithParams: nil, or a statement with its parameters
NilPlan == [nil |-> TRUE, statement |-> <<>>, params |-> <<>>]

StatementWithParams(statement, params) ==
    [nil |-> FALSE, statement |-> statement, params |-> params]

\* a driver event: what was done, on which connection or pool, how it ended,
\* and the SQL text and parameters sent, if any
Ev(ev, id, ok, sql, params) ==
    [ev |-> ev, id |-> id, ok |-> ok, sql |-> sql, params |-> params]

\* the state as one record, threaded through the calls of a handler
World ==
    [sqlDB |-> sqlDB, conn |-> conn, dsnManager |-> dsnManager, pools |-> pools,
     conns |-> conns, status |-> status, log |-> <<>>]

Logged(w, e) == [w EXCEPT !.log = Append(@, e)]

\* what a call hands back: the state it leaves, a handle, a plan, an error
Result(w, handle, plan, err) == [w |-> w, handle |-> handle, plan |-> plan, err |-> err]

\* a nil pointer dereference: the goroutine panics and nothing after it runs
Panic(w) == Result([w EXCEPT !.status = "panicked"], NIL, NilPlan, Err("panic", "", ""))

\* Connx waits for a connection of a pool whose only one is never released
Blocked(w) == Result([w EXCEPT !.status = "blocked"], NIL, NilPlan, Err("blocked", "", ""))

Running(r) == r.w.status = "running"

OpenConns(w) == { c \in DOMAIN w.conns : w.conns[c].open }

\* sql.Conn.Close: releases the connection; closing a closed one only
\* returns an error, which the callers drop
CloseConn(w, c) ==
    Logged([w EXCEPT !.conns[c].open = FALSE], Ev("close", c, w.conns[c].open, <<>>, <<>>))

(***************************************************************************)
(* The connection manager (package conn).  Every operation is the set of   *)
(* outcomes the call can have: the driver decides whether a ping, an       *)
(* acquisition or a statement succeeds.                                    *)
(***************************************************************************)

\* ProbeHandle without the Close of the handle whose ping failed
ProbeHandleNoClose(w) ==
    LET c == w.conn
    IN  { [w |-> Logged(w, Ev("ping", c, FALSE, <<>>, <<>>)), live |-> FALSE] }
        \cup IF w.conns[c].open
             THEN { [w |-> Logged(w, Ev("ping", c, TRUE, <<>>, <<>>)), live |-> TRUE] }
             ELSE {}

\* conn.PingContext on the manager's handle, and the Close that follows a
\* failed ping (GetConnection, first half).  A closed handle never answers.
ProbeHandle(w) ==
    LET c      == w.conn
        alive  == [w |-> Logged(w, Ev("ping", c, TRUE, <<>>, <<>>)), live |-> TRUE]
        failed == [w |-> CloseConn(Logged(w, Ev("ping", c, FALSE, <<>>, <<>>)), c),
                   live |-> FALSE]
    IN  IF w.conns[c].open THEN {alive, failed} ELSE {failed}

\* conn.ExecContext(ctx, "SET SQL_SAFE_UPDATES = 1") on the connection c just
\* acquired, and the end of GetConnection.  A failure returns the error and
\* leaves the manager's handle as it was; database/sql closes c by itself only
\* when the failure is driver.ErrBadConn.
ApplySafeMode(w, c) ==
    LET issued(ok) == Logged([w EXCEPT !.conns[c].safeCmds = @ + 1],
                             Ev("exec", c, ok, safeUpdatesStatement, <<>>))
        stored(v)  == [v EXCEPT !.conn = c]
        dropped(v) == [v EXCEPT !.conns[c].open = FALSE]
    IN  IF w.dsnManager.SafeMode
        THEN { Result(stored(issued(TRUE)), c, NilPlan, NoErr),
               Result(issued(FALSE), NIL, NilPlan, Err("exec failed", "", "")),
               Result(dropped(issued(FALSE)), NIL, NilPlan, Err("bad connection", "", "")) }
        ELSE { Result(stored(w), c, NilPlan, NoErr) }

\* AcquireConnection, but when Connx fails the handle the manager still
\* holds is returned
AcquireConnectionFallingBack(w) ==
    IF w.sqlDB = NIL THEN { Panic(w) }
    ELSE LET p == w.sqlDB
             c == Len(w.conns) + 1
             got == Logged([w EXCEPT !.conns = Append(@,
                               [pool |-> p, open |-> TRUE, safeCmds |-> 0])],
                           Ev("connx", c, TRUE, <<>>, <<>>))
             failed == Logged(w, Ev("connx", NIL, FALSE, <<>>, <<>>))
             kept == IF w.conn # NIL
                     THEN Result(failed, w.conn, NilPlan, NoErr)
                     ELSE Result(failed, NIL, NilPlan,
                                 Err("Failed to get connection to database", "", ""))
         IN  IF w.pools[p].closed
             THEN { kept }
             ELSE IF \E d \in OpenConns(w) : w.conns[d].pool = p
             THEN { Blocked(w) }
             ELSE { kept } \cup ApplySafeMode(got, c)

\* sqlDB.Connx and what follows it (GetConnection, second half).  The pool
\* holds at most one connection (SetMaxOpenConns(1)): while one is acquired
\* and not closed, Connx waits.
AcquireConnection(w) ==
    IF w.sqlDB = NIL THEN { Panic(w) }
    ELSE LET p == w.sqlDB
             c == Len(w.conns) + 1
             got == Logged([w EXCEPT !.conns = Append(@,
                               [pool |-> p, open |-> TRUE, safeCmds |-> 0])],
                           Ev("connx", c, TRUE, <<>>, <<>>))
         IN  IF w.pools[p].closed
             THEN { Result(Logged(w, Ev("connx", NIL, FALSE, <<>>, <<>>)), NIL, NilPlan,
                           Err("Failed to get connection to database", "", "")) }
             ELSE IF \E d \in OpenConns(w) : w.conns[d].pool = p
             THEN { Blocked(w) }
             ELSE { Result(Logged(w, Ev("connx", NIL, FALSE, <<>>, <<>>)), NIL, NilPlan,
                           Err("Failed to get connection to database", "", "")) }
                  \cup ApplySafeMode(got, c)

\* GetConnection sending the safe-updates command on a reused handle as well
GetConnectionReissuing(w) ==
    IF w.conn # NIL
    THEN UNION { IF pr.live
                 THEN ApplySafeMode(pr.w, pr.w.conn)
                 ELSE AcquireConnection(pr.w) : pr \in ProbeHandle(w) }
    ELSE AcquireConnection(w)

GetConnection(w) ==
    IF w.conn # NIL
    THEN UNION { IF pr.live
                 THEN { Result(pr.w, pr.w.conn, NilPlan, NoErr) }
                 ELSE AcquireConnection(pr.w) : pr \in ProbeHandle(w) }
    ELSE AcquireConnection(w)

\* dsnManager.GetDSN, as createDB sees it: DSNOptions builds a DSN for the
\* two flavors it knows and fails for any other; of another DSNManager
\* nothing is known.
GetDSNOutcomes(w) ==
    IF w.dsnManager.Flavor \in {MySQL, PostgreSQL} THEN {TRUE} ELSE {TRUE, FALSE}

\* createDB: build the DSN, sqlx.Open, Ping, then the pool's limits.  The new
\* pool is opened against the database the options name at that moment.
createDB(w) ==
    LET p       == Len(w.pools) + 1
        dsnErr  == Result(w, NIL, NilPlan, Err("Failed to create connection string", "", ""))
        openErr == Result(Logged(w, Ev("open", NIL, FALSE, <<>>, <<>>)), NIL, NilPlan,
                          Err("Failed to open database", "", ""))
        opened  == Logged(w, Ev("open", p, TRUE, <<>>, <<>>))
        pingErr == Result(Logged(opened, Ev("dbping", p, FALSE, <<>>, <<>>)), NIL, NilPlan,
                          Err("Failed to establish connection to database", "", ""))
        made    == [Logged(opened, Ev("dbping", p, TRUE, <<>>, <<>>)) EXCEPT
                      !.pools = Append(@, [closed |-> FALSE,
                                           db |-> w.dsnManager.DatabaseName])]
    IN  UNION { IF dsnOk THEN { openErr, pingErr, Result(made, p, NilPlan, NoErr) }
                ELSE { dsnErr } : dsnOk \in GetDSNOutcomes(w) }

\* Destroy: conn.Close(), sqlDB.Close(), both fields nil.  Close is called
\* through the pointer, so a nil conn or a nil sqlDB is dereferenced.
\* sqlDB.Close() closes the pool and its idle connections; a connection that
\* is still acquired stays open.
Destroy(w) ==
    IF w.conn = NIL THEN Panic(w)
    ELSE LET closed == CloseConn(w, w.conn)
         IN  IF closed.sqlDB = NIL THEN Panic(closed)
             ELSE Result([Logged(closed, Ev("dbclose", closed.sqlDB, TRUE, <<>>, <<>>))
                            EXCEPT !.pools[closed.sqlDB].closed = TRUE,
                                   !.sqlDB = NIL, !.conn = NIL],
                         NIL, NilPlan, NoErr)

\* UseDatabase tearing the old pool and handle down before the new pool exists
UseDatabaseTeardownFirst(w, databaseName) ==
    LET d == Destroy([w EXCEPT !.dsnManager.DatabaseName = databaseName])
    IN  IF ~Running(d) THEN { d }
        ELSE { IF made.err = NoErr
               THEN Result([made.w EXCEPT !.sqlDB = made.handle], NIL, NilPlan, NoErr)
               ELSE Result(made.w, NIL, NilPlan, Err("Failed to switch database", "", ""))
               : made \in createDB(d.w) }

\* UseDatabase: SetDatabase, createDB, and only when that succeeded Destroy
\* and the new pool.
UseDatabase(w, databaseName) ==
    LET renamed == [w EXCEPT !.dsnManager.DatabaseName = databaseName]
        switch(made) ==
            LET d == Destroy(made.w)
            IN  IF Running(d)
                THEN Result([d.w EXCEPT !.sqlDB = made.handle], NIL, NilPlan, NoErr)
                ELSE d
    IN  { IF made.err = NoErr THEN switch(made)
          ELSE Result(made.w, NIL, NilPlan, Err("Failed to switch database", "", ""))
          : made \in createDB(renamed) }

(***************************************************************************)
(* The statement transformer (statement.go:18-167).                        *)
(***************************************************************************)
commandNotSupportedError(command, flavor) == Err("not supported", command, flavor)

GetFlavor(w) == w.dsnManager.Flavor

\* conn.GetContext(&exists, postgresTableExistQuery, tableName): a row saying
\* yes or no, sql.ErrNoRows (exists stays false), or another error
\* (the event of the probe is ok when the table was found)
TableProbeOutcomes == {"exists", "absent", "no rows", "error"}

assertPostgresTableExists(w, tableName) ==
    UNION { IF ~Running(g) THEN { g }
            ELSE IF g.err # NoErr
            THEN { Result(g.w, NIL, NilPlan, Err("Failed to get connection", "", "")) }
            ELSE { LET asked == Logged(g.w, Ev("get", g.handle, o = "exists",
                                               postgresTableExistQuery, <<tableName>>))
                   IN  CASE o = "error" ->
                              Result(asked, NIL, NilPlan,
                                     Err("Unable to validate that the table exists", "", ""))
                         [] o = "exists" -> Result(asked, NIL, NilPlan, NoErr)
                         [] OTHER ->
                              Result(asked, NIL, NilPlan, Err("Table does not exist", "", ""))
                   : o \in TableProbeOutcomes }
            : g \in GetConnection(w) }

buildShowTablesQuery(w, originalStatement) ==
    CASE GetFlavor(w) = PostgreSQL ->
           { Result(w, NIL, StatementWithParams(postgresShowTablesQuery, <<>>), NoErr) }
      [] GetFlavor(w) = MySQL ->
           { Result(w, NIL, StatementWithParams(originalStatement, <<>>), NoErr) }
      [] OTHER ->
           { Result(w, NIL, NilPlan, commandNotSupportedError("SHOW TABLES", GetFlavor(w))) }

\* buildShowIndexesQuery naming the wrong command for an unknown flavor
buildShowIndexesQueryMisnamed(w, tableName, originalStatement) ==
    CASE GetFlavor(w) = MySQL ->
           { Result(w, NIL, StatementWithParams(originalStatement, <<>>), NoErr) }
      [] GetFlavor(w) = PostgreSQL ->
           { IF a.err # NoErr THEN a
             ELSE Result(a.w, NIL,
                         StatementWithParams(postgresShowIndexesQuery, <<tableName>>), NoErr)
             : a \in assertPostgresTableExists(w, tableName) }
      [] OTHER ->
           { Result(w, NIL, NilPlan, commandNotSupportedError("DESCRIBE", GetFlavor(w))) }

buildShowIndexesQuery(w, tableName, originalStatement) ==
    CASE GetFlavor(w) = MySQL ->
           { Result(w, NIL, StatementWithParams(originalStatement, <<>>), NoErr) }
      [] GetFlavor(w) = PostgreSQL ->
           { IF a.err # NoErr THEN a
             ELSE Result(a.w, NIL,
                         StatementWithParams(postgresShowIndexesQuery, <<tableName>>), NoErr)
             : a \in assertPostgresTableExists(w, tableName) }
      [] OTHER ->
           { Result(w, NIL, NilPlan, commandNotSupportedError("SHOW INDEXES", GetFlavor(w))) }

\* buildDescribeQuery rewriting for PostgreSQL without asking for the table
buildDescribeQueryUnchecked(w, tableName, originalStatement) ==
    CASE GetFlavor(w) = MySQL ->
           { Result(w, NIL, StatementWithParams(originalStatement, <<>>), NoErr) }
      [] GetFlavor(w) = PostgreSQL ->
           { Result(w, NIL, StatementWithParams(postgresDescribeQuery, <<tableName>>), NoErr) }
      [] OTHER ->
           { Result(w, NIL, NilPlan, commandNotSupportedError("DESCRIBE", GetFlavor(w))) }

buildDescribeQuery(w, tableName, originalStatement) ==
    CASE GetFlavor(w) = MySQL ->
           { Result(w, NIL, StatementWithParams(originalStatement, <<>>), NoErr) }
      [] GetFlavor(w) = PostgreSQL ->
           { IF a.err # NoErr THEN a
             ELSE Result(a.w, NIL,
                         StatementWithParams(postgresDescribeQuery, <<tableName>>), NoErr)
             : a \in assertPostgresTableExists(w, tableName) }
      [] OTHER ->
           { Result(w, NIL, NilPlan, commandNotSupportedError("DESCRIBE", GetFlavor(w))) }

\* transformStatement handing the trimmed text on instead of the raw statement
transformStatementTrimmed(w, statement) ==
    LET trimmed == TrimSpace(statement)
    IN  IF statementIsDescribe(statement).matched
        THEN buildDescribeQuery(w, statementIsDescribe(statement).tableName, trimmed)
        ELSE IF statementIsShowIndexes(statement).matched
        THEN buildShowIndexesQuery(w, statementIsShowIndexes(statement).tableName, trimmed)
        ELSE IF statementIsShowTables(statement)
        THEN buildShowTablesQuery(w, trimmed)
        ELSE { Result(w, NIL, StatementWithParams(trimmed, <<>>), NoErr) }

transformStatement(w, statement) ==
    IF statementIsDescribe(statement).matched
    THEN buildDescribeQuery(w, statementIsDescribe(statement).tableName, statement)
    ELSE IF statementIsShowIndexes(statement).matched
    THEN buildShowIndexesQuery(w, statementIsShowIndexes(statement).tableName, statement)
    ELSE IF statementIsShowTables(statement)
    THEN buildShowTablesQuery(w, statement)
    ELSE { Result(w, NIL, StatementWithParams(statement, <<>>), NoErr) }

(***************************************************************************)
(* DBClient.Query up to the execution of the plan: a connection, the       *)
(* transformation (an error of either ends the call), then the plan sent   *)
(* on the connection obtained first.                                       *)
(***************************************************************************)
ExecutePlan(w, c, plan) ==
    LET sent(ok) == Logged(w, Ev("query", c, ok, plan.statement, plan.params))
        failed   == Result(sent(FALSE), c, plan, Err("Query Failed", "", ""))
    IN  IF w.conns[c].open THEN { Result(sent(TRUE), c, plan, NoErr), failed }
        ELSE { failed }

Query(w, statement) ==
    UNION { IF ~Running(g) \/ g.err # NoErr THEN { g }
            ELSE UNION { IF ~Running(t) \/ t.err # NoErr THEN { t }
                         ELSE ExecutePlan(t.w, g.handle, t.plan)
                         : t \in transformStatement(g.w, statement) }
            : g \in GetConnection(w) }

(***************************************************************************)
(* The statements the model types in.                                      *)
(***************************************************************************)
LowerChar(c) ==
    IF c \in Range(UpperLetters)
    THEN LowerLetters[CHOOSE i \in DOMAIN UpperLetters : UpperLetters[i] = c]
    ELSE c

ToLower(s) == [i \in DOMAIN s |-> LowerChar(s[i])]

\* Describe, Show Indexes From: the first letter of each word in upper case
Capitalized(s) ==
    [i \in DOMAIN s |-> IF i = 1 \/ s[i - 1] = " " THEN UpperChar(s[i]) ELSE LowerChar(s[i])]

LetterCases(s) == { ToUpper(s), ToLower(s), Capitalized(s) }

Quote == <<"\"">>

TableKeywords ==
    { <<"D","E","S","C","R","I","B","E">>,
      <<"S","H","O","W"," ","I","N","D","E","X","E","S"," ","F","R","O","M">> }

\* a name of word characters, one with a character outside \w, and none
TableNames == { <<"t","_","1">>, <<"a","-","b">>, <<>> }

Separators == { <<" ">>, <<" "," ">> }

Leads == { <<>>, <<" ">> }

Tails == { <<>>, <<";">>, <<";",";">>, <<" ",";">>, <<";"," ">>, <<"\n">> }

TableCommands ==
    { lead \o kw \o sep \o q1 \o name \o q2 \o tail :
        lead \in Leads, kw \in UNION { LetterCases(k) : k \in TableKeywords },
        sep \in Separators, q1 \in {<<>>, Quote}, name \in TableNames,
        q2 \in {<<>>, Quote}, tail \in Tails }

ShowTablesCores ==
    LetterCases(SHOW_TABLES)
    \cup { <<"S","H","O","W",";"," ","T","A","B","L","E","S">>,
           <<"S","H","O","W"," "," ","T","A","B","L","E","S">>,
           <<"S","H","O","W"," ","T","A","B","L","E">>,
           <<"S","H","O","W","T","A","B","L","E","S">> }

ShowTablesCommands ==
    { lead \o core \o tail :
        lead \in Leads \cup {<<";">>}, core \in ShowTablesCores, tail \in Tails }

OtherStatements ==
    { <<"S","E","L","E","C","T"," ","1">>, <<"D","E","S","C"," ","f","o","o">>,
      <<"U","S","E"," ","t","e","s","t",";">>, <<>> }

\* every statement of the family: the domain of the claims about recognition
AllStatements == TableCommands \cup ShowTablesCommands \cup OtherStatements

\* the statements typed while the connection manager goes through its states
Statements ==
    { <<"S","E","L","E","C","T"," ","1">>,
      <<"D","E","S","C","R","I","B","E"," ","f","o","o">>,
      <<"D","E","S","C","R","I","B","E"," ","\"","f","o","o">>,
      ToLower(SHOW_INDEXES_KW) \o Quote \o <<"f","o","o">> \o Quote \o <<";">>,
      SHOW_TABLES,
      ToLower(SHOW_TABLES) \o <<" ",";">> }

(***************************************************************************)
(* The state machine.                                                      *)
(***************************************************************************)
Call(op, databaseName, statement, r) ==
    [op |-> op, databaseName |-> databaseName, statement |-> statement,
     handle |-> r.handle, plan |-> r.plan, err |-> r.err, log |-> r.w.log]

\* the state a call leaves, within the bounds of the model
Commit(op, databaseName, statement, r) ==
    /\ Len(r.w.conns) <= MaxConns
    /\ Len(r.w.pools) <= MaxPools
    /\ sqlDB' = r.w.sqlDB
    /\ conn' = r.w.conn
    /\ dsnManager' = r.w.dsnManager
    /\ pools' = r.w.pools
    /\ conns' = r.w.conns
    /\ status' = r.w.status
    /\ call' = Call(op, databaseName, statement, r)
    /\ UNCHANGED <<fetched, formatted, built, history>>

\* CreateConnectionManager has returned a manager: the first pool is open and
\* pinged, no connection is acquired yet
ManagerInit ==
    /\ dsnManager \in [Flavor : Flavors, SafeMode : BOOLEAN, DatabaseName : {"test"}]
    /\ sqlDB = 1
    /\ conn = NIL
    /\ pools = << [closed |-> FALSE, db |-> "test"] >>
    /\ conns = << >>
    /\ status = "running"
    /\ call = [op |-> "CreateConnectionManager", databaseName |-> "test",
               statement |-> <<>>, handle |-> NIL, plan |-> NilPlan, err |-> NoErr,
               log |-> <<>>]

Init ==
    /\ ManagerInit
    /\ fetched = Idle
    /\ formatted = Idle
    /\ built = Idle
    /\ history = Idle

GetConnectionCall ==
    /\ status = "running"
    /\ \E r \in GetConnection(World) : Commit("GetConnection", "", <<>>, r)

UseDatabaseCall ==
    /\ status = "running"
    /\ \E name \in DatabaseNames :
         \E r \in UseDatabase(World, name) : Commit("UseDatabase", name, <<>>, r)

DestroyCall ==
    /\ status = "running"
    /\ Commit("Destroy", "", <<>>, Destroy(World))

QueryCall ==
    /\ status = "running"
    /\ \E statement \in Statements :
         \E r \in Query(World, statement) : Commit("Query", "", statement, r)

Next ==
    \/ GetConnectionCall
    \/ UseDatabaseCall
    \/ DestroyCall
    \/ QueryCall

Spec == Init /\ [][Next]_vars

\* The transformer alone, on every statement of the family.  The family is
\* large, so two transformations in a row are not explored: a transformation
\* changes the manager only through GetConnection, which is a step here.
TransformCall ==
    /\ status = "running"
    /\ call.op # "transformStatement"
    /\ \E statement \in AllStatements :
         \E r \in transformStatement(World, statement) :
            Commit("transformStatement", "", statement, r)

NextStatement ==
    \/ TransformCall
    \/ GetConnectionCall

SpecStatement == Init /\ [][NextStatement]_vars

(***************************************************************************)
(* Properties of the connection manager, checked under Spec.               *)
(***************************************************************************)
OpenConnections == { c \in DOMAIN conns : conns[c].open }

Events(kind) == { i \in DOMAIN call.log : call.log[i].ev = kind }

\* the last call was GetConnection on a manager that held a handle
ProbedCall ==
    /\ call.op = "GetConnection"
    /\ call.log # <<>>
    /\ call.log[1].ev = "ping"

UseDatabaseFailed ==
    /\ call.op = "UseDatabase"
    /\ call.err.kind = "Failed to switch database"

\* C1: a UseDatabase that fails returns an error and leaves the manager's
\* pool and handle, and every connection and pool of the driver, as they
\* were; a GetConnection that follows it and whose probe succeeds returns the
\* handle the manager held before the failed switch.
C1_UseDatabaseFailSafe ==
    [][ /\ (call'.op = "UseDatabase" /\ call'.err # NoErr /\ status' = "running")
           => /\ call'.err.kind = "Failed to switch database"
              /\ sqlDB' = sqlDB
              /\ conn' = conn
              /\ conns' = conns
              /\ pools' = pools
        /\ (UseDatabaseFailed /\ call'.op = "GetConnection"
              /\ call'.log # <<>> /\ call'.log[1].ev = "ping" /\ call'.log[1].ok)
           => /\ call'.handle = conn
              /\ call'.err = NoErr
              /\ conn' = conn
              /\ conns'[conn].open ]_vars

\* C1 witness: a switch has failed while the manager held a live handle
C1_Witness ==
    /\ UseDatabaseFailed
    /\ conn # NIL
    /\ conns[conn].open
    /\ sqlDB # NIL
    /\ ~pools[sqlDB].closed

\* C2 (as claimed): Destroy can be called in every state of the manager, and
\* every call completes without a failure and leaves no pool and no handle.
C2_DestroyTotal ==
    call.op = "Destroy"
    => /\ status = "running"
       /\ call.err = NoErr
       /\ conn = NIL
       /\ sqlDB = NIL

\* C3: every connection ever acquired has received the safe-updates command
\* exactly once when safe mode is on and never when it is off; the command
\* is only ever sent right after the Connx that acquired the connection, so a
\* call that reuses the handle sends none.
C3_SafeUpdatesOncePerConnection ==
    /\ \A c \in DOMAIN conns :
         conns[c].safeCmds = IF dsnManager.SafeMode THEN 1 ELSE 0
    /\ \A i \in Events("exec") :
         /\ i > 1
         /\ call.log[i - 1].ev = "connx"
         /\ call.log[i - 1].id = call.log[i].id
         /\ call.log[i].sql = safeUpdatesStatement
    /\ (ProbedCall /\ call.log[1].ok) => Events("exec") = {}

\* C3 witness: in safe mode, GetConnection has reused a handle that received
\* the command when it was acquired
C3_Witness ==
    /\ dsnManager.SafeMode
    /\ ProbedCall
    /\ call.log[1].ok
    /\ call.err = NoErr
    /\ call.handle = conn
    /\ conns[conn].safeCmds = 1

\* C4 (as claimed): GetConnection with a handle probes it first; a probe that
\* succeeds returns the same handle and acquires nothing; a probe that fails
\* is followed by the Close of the old handle and then by exactly one new
\* connection, which becomes the manager's handle.
C4_ProbeThenReacquire ==
    ProbedCall
    => IF call.log[1].ok
       THEN /\ call.handle = call.log[1].id
            /\ conn = call.log[1].id
            /\ Events("connx") = {}
       ELSE /\ Len(call.log) >= 2
            /\ call.log[2].ev = "close"
            /\ call.log[2].id = call.log[1].id
            /\ \E i \in Events("connx") :
                 /\ Events("connx") = {i}
                 /\ i > 2
                 /\ call.log[i].ok
                 /\ conn = call.log[i].id
                 /\ conns[conn].open

\* C4 (amended): as above, but after a failed probe and the Close, at most
\* one acquisition is attempted, and when the call returns no error exactly
\* one new connection was acquired and it is the manager's handle.
C4_ProbeThenReacquireAmended ==
    ProbedCall
    => IF call.log[1].ok
       THEN /\ call.handle = call.log[1].id
            /\ conn = call.log[1].id
            /\ call.err = NoErr
            /\ Events("connx") = {}
       ELSE /\ Len(call.log) >= 2
            /\ call.log[2].ev = "close"
            /\ call.log[2].id = call.log[1].id
            /\ ~conns[call.log[1].id].open
            /\ Cardinality(Events("connx")) <= 1
            /\ \A i \in Events("connx") : i > 2
            /\ call.err = NoErr
               => \E i \in Events("connx") :
                    /\ call.log[i].ok
                    /\ call.log[i].id # call.log[1].id
                    /\ conn = call.log[i].id
                    /\ call.handle = conn
                    /\ conns[conn].open

\* C4 witness: a probe failed, the old handle was closed and a new connection
\* took its place
C4_Witness ==
    /\ ProbedCall
    /\ ~call.log[1].ok
    /\ call.err = NoErr
    /\ conn # call.log[1].id
    /\ call.handle = conn
    /\ conns[conn].open

\* C5 (as claimed): at most one application-level connection is open
\* (acquired and not yet closed) at any time.
C5_AtMostOneOpenConnection == Cardinality(OpenConnections) <= 1

\* the connections acquired by the last call
Acquired == { call.log[i].id : i \in { j \in Events("connx") : call.log[j].ok } }

\* C24: every connection that a GetConnection has acquired is, when the
\* call returns, the manager's handle or closed, also when the safe-updates
\* command failed on it; and no GetConnection waits forever for the one
\* connection of the pool.
C24_AcquiredStoredOrClosed ==
    /\ call.op = "GetConnection" =>
          \A c \in Acquired : c = conn \/ ~conns[c].open
    /\ status # "blocked"

\* C26: the database name of the options is the database the manager's
\* pool was opened against; in particular a UseDatabase that fails leaves
\* the name as it was.
C26_NameIsPoolDatabase ==
    /\ [](sqlDB # NIL => dsnManager.DatabaseName = pools[sqlDB].db)
    /\ [][(call'.op = "UseDatabase" /\ call'.err.kind = "Failed to switch database")
            => dsnManager'.DatabaseName = dsnManager.DatabaseName]_vars

\* the pool that the last call opened and pinged, if it did
OpenedBy(c) ==
    { c.log[i].id : i \in { j \in DOMAIN c.log : c.log[j].ev = "dbping" /\ c.log[j].ok } }

\* C25: a UseDatabase that could open the new database, whether the
\* manager held a handle or none, returns no error and leaves the old
\* handle and the old pool closed and the manager with the new pool, opened
\* against the database named, and no handle; a GetConnection that follows
\* it and succeeds returns a connection of the new pool acquired in that
\* call, which has received the safe-updates command exactly when safe mode
\* is on.
C25_SwitchThenFreshConnection ==
    [][ /\ (call'.op = "UseDatabase" /\ OpenedBy(call') # {})
           => /\ status' = "running"
              /\ call'.err = NoErr
              /\ conn' = NIL
              /\ sqlDB' = Len(pools) + 1
              /\ ~pools'[sqlDB'].closed
              /\ pools'[sqlDB'].db = call'.databaseName
              /\ sqlDB # NIL => pools'[sqlDB].closed
              /\ conn # NIL => ~conns'[conn].open
        /\ (call.op = "UseDatabase" /\ call.err = NoErr /\ status = "running"
              /\ call'.op = "GetConnection" /\ call'.err = NoErr)
           => /\ call'.handle = Len(conns) + 1
              /\ conn' = call'.handle
              /\ conns'[conn'].open
              /\ conns'[conn'].pool = sqlDB
              /\ conns'[conn'].safeCmds = IF dsnManager.SafeMode THEN 1 ELSE 0 ]_vars

\* C29: whenever GetConnection returns no error, the handle it returns is
\* the manager's handle and is open, and in that call either its ping
\* succeeded and nothing was acquired, or it was acquired; so a closed
\* handle left in the manager by a failed acquisition is never returned.
C29_ReturnedHandleIsLive ==
    (call.op = "GetConnection" /\ call.err = NoErr) =>
        /\ status = "running"
        /\ call.handle # NIL
        /\ call.handle = conn
        /\ conns[conn].open
        /\ \/ /\ ProbedCall
              /\ call.log[1].ok
              /\ call.log[1].id = conn
              /\ Acquired = {}
           \/ Acquired = {conn}

\* C29 witness: the manager held a handle that was already closed (its Close
\* after the failed ping closes nothing), and the call returned a
\* connection it acquired
C29_Witness ==
    /\ ProbedCall
    /\ ~call.log[1].ok
    /\ call.log[2].ev = "close"
    /\ ~call.log[2].ok
    /\ call.err = NoErr
    /\ call.handle = conn
    /\ conn # call.log[1].id
    /\ ~conns[call.log[1].id].open
    /\ conns[conn].open

\* C28: a connection of a PostgreSQL server never receives the safe-updates
\* command, and no call sends it, whether or not the options ask for safe
\* mode.
C28_SafeUpdatesOnlyForMySQL ==
    dsnManager.Flavor = PostgreSQL =>
        /\ \A c \in DOMAIN conns : conns[c].safeCmds = 0
        /\ \A i \in Events("exec") : call.log[i].sql # safeUpdatesStatement

(***************************************************************************)
(* Properties of the statement transformer, checked under SpecStatement.   *)
(***************************************************************************)
Transformed == call.op = "transformStatement"

IsTableCommand(s) == statementIsDescribe(s).matched \/ statementIsShowIndexes(s).matched

IsMetaCommand(s) == IsTableCommand(s) \/ statementIsShowTables(s)

TableOf(s) ==
    IF statementIsDescribe(s).matched
    THEN statementIsDescribe(s).tableName
    ELSE statementIsShowIndexes(s).tableName

RewrittenFor(s) ==
    IF statementIsDescribe(s).matched THEN postgresDescribeQuery ELSE postgresShowIndexesQuery

CommandName(s) ==
    IF statementIsDescribe(s).matched THEN "DESCRIBE"
    ELSE IF statementIsShowIndexes(s).matched THEN "SHOW INDEXES"
    ELSE "SHOW TABLES"

\* C6: for PostgreSQL, transforming DESCRIBE <table> or SHOW INDEXES FROM
\* <table> sends no statement but the table-existence probe, with the table
\* as its parameter; a plan is returned only after a probe that found the
\* table, and when none did (table absent, probe failed, no connection) the
\* call returns an error and no plan; the rewritten query is never sent.
C6_ProbeBeforeRewrite ==
    (Transformed /\ dsnManager.Flavor = PostgreSQL /\ IsTableCommand(call.statement))
    => LET found == { i \in Events("get") : call.log[i].ok }
       IN  /\ Events("query") = {}
           /\ \A i \in DOMAIN call.log :
                call.log[i].sql \notin {postgresDescribeQuery, postgresShowIndexesQuery}
           /\ Cardinality(Events("get")) <= 1
           /\ \A i \in Events("get") :
                /\ call.log[i].sql = postgresTableExistQuery
                /\ call.log[i].params = << TableOf(call.statement) >>
           /\ found = {} => (call.plan.nil /\ call.err # NoErr)
           /\ found # {}
              => /\ call.err = NoErr
                 /\ call.plan = StatementWithParams(RewrittenFor(call.statement),
                                                    << TableOf(call.statement) >>)

\* C6 witness: DESCRIBE of a table the probe did not find: an error, no plan
C6_Witness ==
    /\ Transformed
    /\ dsnManager.Flavor = PostgreSQL
    /\ statementIsDescribe(call.statement).matched
    /\ \E i \in Events("get") : ~call.log[i].ok
    /\ call.err.kind = "Table does not exist"
    /\ call.plan.nil

\* C7: for MySQL, and for every flavor when the statement matches none of the
\* three patterns, the transformer returns the raw statement with no
\* parameters and no error, and calls the driver for nothing.
C7_PassThrough ==
    (Transformed /\ (dsnManager.Flavor = MySQL \/ ~IsMetaCommand(call.statement)))
    => /\ call.plan = StatementWithParams(call.statement, <<>>)
       /\ call.err = NoErr
       /\ call.log = <<>>

\* C7 witness: MySQL, a SHOW INDEXES statement with white space around it,
\* handed back as typed
C7_Witness ==
    /\ Transformed
    /\ dsnManager.Flavor = MySQL
    /\ statementIsShowIndexes(call.statement).matched
    /\ TrimSpace(call.statement) # call.statement
    /\ call.plan.statement = call.statement

\* C8: for a flavor that is neither MySQL nor PostgreSQL, a statement that
\* matches one of the three patterns yields the 'not supported' error naming
\* that command and the flavor, no plan, and no call of the driver.
C8_NotSupported ==
    (Transformed /\ dsnManager.Flavor \notin {MySQL, PostgreSQL}
       /\ IsMetaCommand(call.statement))
    => /\ call.err = commandNotSupportedError(CommandName(call.statement),
                                              dsnManager.Flavor)
       /\ call.plan.nil
       /\ call.log = <<>>

\* C8 witness: SHOW INDEXES on the unknown flavor
C8_Witness ==
    /\ Transformed
    /\ dsnManager.Flavor = OtherFlavor
    /\ statementIsShowIndexes(call.statement).matched
    /\ call.err.kind = "not supported"
    /\ call.err.command = "SHOW INDEXES"

\* the white space and the semicolons around a statement stripped
StripAround(s) ==
    LET keep == { i \in DOMAIN s : ~IsSpace(s[i]) /\ s[i] # ";" }
    IN  IF keep = {} THEN <<>>
        ELSE LET lo == CHOOSE i \in keep : \A j \in keep : i <= j
                 hi == CHOOSE i \in keep : \A j \in keep : j <= i
             IN  SubSeq(s, lo, hi)

\* C9 (as claimed): a statement is taken for SHOW TABLES exactly when it is
\* SHOW TABLES once the letter case is normalized and the semicolons and the
\* white space around it are stripped (seen on PostgreSQL, where a recognized
\* statement is rewritten).
C9_ShowTablesRecognition ==
    (Transformed /\ dsnManager.Flavor = PostgreSQL)
    => ((call.plan.statement = postgresShowTablesQuery)
        <=> (ToUpper(StripAround(call.statement)) = SHOW_TABLES))

\* a table command as the claim describes it: the keyword in any letter
\* case, one space, a name of word characters, bare or between two double
\* quotes, and an optional semicolon
ClaimedTableCommand(kw, statement) ==
    LET text == TrimSpace(statement)
        body == DropFirst(text, Len(kw))
        bare == IF body # <<>> /\ body[Len(body)] = ";"
                THEN SubSeq(body, 1, Len(body) - 1) ELSE body
        quoted == Len(bare) >= 2 /\ bare[1] = "\"" /\ bare[Len(bare)] = "\""
        name == IF quoted THEN SubSeq(bare, 2, Len(bare) - 1) ELSE bare
    IN  IF /\ Len(text) >= Len(kw)
           /\ ToUpper(SubSeq(text, 1, Len(kw))) = kw
           /\ name # <<>>
           /\ \A i \in DOMAIN name : IsWord(name[i])
        THEN [matched |-> TRUE, tableName |-> name]
        ELSE NoMatch

\* C10 (as claimed): a statement is taken for DESCRIBE (SHOW INDEXES FROM)
\* exactly when it has the shape above (seen on the unknown flavor, where a
\* recognized statement is refused by name), and for PostgreSQL the plan's
\* only parameter is the name without quotes or semicolon.
C10_TableCommandRecognition ==
    Transformed
    => /\ dsnManager.Flavor = OtherFlavor
          => /\ (call.err = commandNotSupportedError("DESCRIBE", OtherFlavor))
                <=> ClaimedTableCommand(DESCRIBE_KW, call.statement).matched
             /\ (call.err = commandNotSupportedError("SHOW INDEXES", OtherFlavor))
                <=> ClaimedTableCommand(SHOW_INDEXES_KW, call.statement).matched
       /\ (dsnManager.Flavor = PostgreSQL /\ call.plan.statement = postgresDescribeQuery)
          => /\ ClaimedTableCommand(DESCRIBE_KW, call.statement).matched
             /\ call.plan.params
                  = << ClaimedTableCommand(DESCRIBE_KW, call.statement).tableName >>
       /\ (dsnManager.Flavor = PostgreSQL /\ call.plan.statement = postgresShowIndexesQuery)
          => /\ ClaimedTableCommand(SHOW_INDEXES_KW, call.statement).matched
             /\ call.plan.params
                  = << ClaimedTableCommand(SHOW_INDEXES_KW, call.statement).tableName >>

(***************************************************************************)
(* DBClient.Query after the plan was sent (db.go:157-227): the answer of   *)
(* the driver, the row loop and the map built for each row.                *)
(***************************************************************************)
\* a scanned cell, sql.NullString
NullCell == [Valid |-> FALSE, String |-> ""]

TextCell(text) == [Valid |-> TRUE, String |-> text]

Cells == { NullCell, TextCell("x"), TextCell("NULL") }

\* what rows.Columns() can report: the names in projection order; a
\* projection may name two columns alike (SELECT 1 AS a, 2 AS a)
ColumnLists == { <<>>, <<"a">>, <<"a", "b">>, <<"b", "a">>, <<"a", "a">> }

\* the rows of n cells each that an iterator can deliver, MaxRows at most
TablesOf(n) == UNION { [1..k -> [1..n -> Cells]] : k \in 0..MaxRows }

\* The answers of the driver to QueryxContext and to the calls on the
\* iterator it returns.
\*   kind     "error": QueryxContext failed; "nil": no iterator and no
\*            error; "rows": an iterator
\*   columns  what rows.Columns() returns, unless fault = "columns"
\*   table    the rows for which rows.Next() is true, in order
\*   fault    "scan": rows.Scan fails on the last row of table;
\*            "next": rows.Next() ended the loop on an error, not on the
\*            end of the rows; "columns": rows.Columns() fails
\*   closeErr rows.Close() returns an error
NoIterator(kind) ==
    [kind |-> kind, columns |-> <<>>, table |-> <<>>, fault |-> "none",
     closeErr |-> FALSE]

DriverAnswers ==
    { NoIterator("error"), NoIterator("nil") }
    \cup { [kind |-> "rows", columns |-> c, table |-> t, fault |-> f, closeErr |-> ce] :
             c \in ColumnLists, t \in UNION { TablesOf(Len(cs)) : cs \in ColumnLists },
             f \in {"none", "columns", "scan", "next"}, ce \in BOOLEAN }

\* the answers an iterator can give: every row has one cell per column, and
\* a Scan that fails fails on a row
PossibleAnswer(a) ==
    /\ \A r \in DOMAIN a.table : Len(a.table[r]) = Len(a.columns)
    /\ a.fault = "scan" => a.table # <<>>

\* db.go:211-218: the text kept for a cell
cellValue(columnValue) ==
    IF columnValue.Valid THEN columnValue.String ELSE "NULL"

\* db.go:209-218: mappedRow, filled in the order of the column positions; an
\* assignment to a key already present replaces its value
mappedRow(columns, rawRow) ==
    [columnName \in Range(columns) |->
        LET last == CHOOSE j \in DOMAIN columns :
                       /\ columns[j] = columnName
                       /\ \A i \in DOMAIN columns : columns[i] = columnName => i <= j
        IN  cellValue(rawRow[last])]

QueryResult(rows, columns) == [nil |-> FALSE, Rows |-> rows, Columns |-> columns]

NilResult == [nil |-> TRUE, Rows |-> <<>>, Columns |-> <<>>]

\* what Query hands back, whether rows.Close() ran, and whether the
\* deferred Close panicked
Returned(results, err, closed, panicked) ==
    [results |-> results, err |-> err, closed |-> closed, panicked |-> panicked]

\* db.go:165-227 with an iterator in hand: the deferred Close runs on every
\* return and panics when Close fails
WithIterator(a, results, err) ==
    IF a.closeErr
    THEN Returned(NilResult, Err("panic: Failed to cleanup rows", "", ""), TRUE, TRUE)
    ELSE Returned(results, err, TRUE, FALSE)

\* materializeRows, but an iterator that delivers no row is reported as an
\* error, the way QueryRow reports sql.ErrNoRows
materializeRowsNoRowsIsError(a) ==
    IF a.kind = "error"
    THEN Returned(NilResult, Err("Query Failed", "", ""), FALSE, FALSE)
    ELSE IF a.kind = "nil"
    THEN Returned(NilResult, NoErr, FALSE, FALSE)
    ELSE IF a.fault = "columns"
    THEN WithIterator(a, NilResult, Err("Could not determine columns", "", ""))
    ELSE IF a.fault = "scan"
    THEN WithIterator(a, NilResult, Err("failed to read rows", "", ""))
    ELSE IF a.table = <<>>
    THEN WithIterator(a, NilResult, Err("sql: no rows in result set", "", ""))
    ELSE LET rawRows    == a.table
             mappedRows == [rowIdx \in DOMAIN rawRows |->
                               mappedRow(a.columns, rawRows[rowIdx])]
         IN  WithIterator(a, QueryResult(mappedRows, a.columns), NoErr)

materializeRows(a) ==
    IF a.kind = "error"
    THEN Returned(NilResult, Err("Query Failed", "", ""), FALSE, FALSE)
    ELSE IF a.kind = "nil"
    THEN Returned(NilResult, NoErr, FALSE, FALSE)
    ELSE IF a.fault = "columns"
    THEN WithIterator(a, NilResult, Err("Could not determine columns", "", ""))
    ELSE IF a.fault = "scan"
    THEN WithIterator(a, NilResult, Err("failed to read rows", "", ""))
    ELSE LET rawRows    == a.table
             mappedRows == [rowIdx \in DOMAIN rawRows |->
                               mappedRow(a.columns, rawRows[rowIdx])]
         IN  WithIterator(a, QueryResult(mappedRows, a.columns), NoErr)

\* a call Query makes on the connection handle or on the row iterator
On(receiver, method) == [on |-> receiver, method |-> method]

\* rows.Next() and rows.Scan() for each of the first n rows
RECURSIVE Fetches(_)
Fetches(n) ==
    IF n = 0 THEN <<>>
    ELSE Fetches(n - 1) \o << On("rows", "Next"), On("rows", "Scan") >>

\* QueryCalls, but the iterator is closed at the end of the row loop only,
\* not on the returns that leave early
QueryCallsCloseAfterLoop(a) ==
    LET sent    == << On("conn", "QueryxContext") >>
        columns == << On("rows", "Columns") >>
    IN  IF a.kind # "rows" THEN sent
        ELSE IF a.fault = "columns" THEN sent \o columns
        ELSE IF a.fault = "scan" THEN sent \o columns \o Fetches(Len(a.table))
        ELSE sent \o columns \o Fetches(Len(a.table))
                  \o << On("rows", "Next"), On("rows", "Close") >>

\* db.go:157-227: the calls Query makes on the handle and on the iterator,
\* in order; the deferred rows.Close() is the last call on every path that
\* has an iterator
QueryCalls(a) ==
    LET sent    == << On("conn", "QueryxContext") >>
        columns == << On("rows", "Columns") >>
        close   == << On("rows", "Close") >>
    IN  IF a.kind # "rows" THEN sent
        ELSE IF a.fault = "columns" THEN sent \o columns \o close
        ELSE IF a.fault = "scan" THEN sent \o columns \o Fetches(Len(a.table)) \o close
        ELSE sent \o columns \o Fetches(Len(a.table)) \o << On("rows", "Next") >> \o close

\* The row loop alone, once on every answer of the driver: the manager is
\* left alone, except that a panic ends the program.
InitResult ==
    /\ Init
    /\ dsnManager = [Flavor |-> MySQL, SafeMode |-> FALSE, DatabaseName |-> "test"]

QueryRowsCall ==
    /\ status = "running"
    /\ fetched = Idle
    /\ \E a \in DriverAnswers :
         /\ PossibleAnswer(a)
         /\ fetched' = [op |-> "Query", answer |-> a, returned |-> materializeRows(a),
                         calls |-> QueryCalls(a)]
         /\ status' = IF materializeRows(a).panicked THEN "panicked" ELSE status
    /\ UNCHANGED <<sqlDB, conn, dsnManager, pools, conns, call, formatted, built, history>>

NextResult == QueryRowsCall

SpecResult == InitResult /\ [][NextResult]_vars

(***************************************************************************)
(* Properties of the row loop, checked under SpecResult.                   *)
(***************************************************************************)
\* Query has returned a QueryResult
ResultReturned ==
    /\ fetched # Idle
    /\ ~fetched.returned.results.nil

\* the text under which Query keeps a scanned cell: its string, and NULL for
\* a cell that is not valid
KeptAs(cell, value) ==
    /\ cell.Valid => value = cell.String
    /\ ~cell.Valid => value = "NULL"

\* C11: in every QueryResult that Query returns, each row is a map whose
\* keys are exactly the column names, and at every column position j the
\* row holds, under the name of column j, the cell scanned at position j;
\* the columns are in the order of the projection.
C11_RowsKeyedByColumn ==
    ResultReturned =>
        LET results == fetched.returned.results
            scanned == fetched.answer.table
        IN  /\ results.Columns = fetched.answer.columns
            /\ DOMAIN results.Rows = DOMAIN scanned
            /\ \A r \in DOMAIN results.Rows :
                  /\ DOMAIN results.Rows[r] = Range(results.Columns)
                  /\ \A j \in DOMAIN results.Columns :
                        KeptAs(scanned[r][j], results.Rows[r][results.Columns[j]])

\* C12: a statement that executes never gets an error from Query for having
\* no rows: without an iterator Query returns a nil result and a nil error,
\* and with an iterator that delivers no row it returns a result with the
\* column names, no rows, and a nil error.
C12_NoRowsIsNotAnError ==
    fetched # Idle =>
        LET a == fetched.answer
            returned == fetched.returned
        IN  /\ a.kind = "nil" => returned.results.nil /\ returned.err = NoErr
            /\ (a.kind = "rows" /\ a.fault = "none" /\ ~a.closeErr /\ a.table = <<>>)
                  => /\ ~returned.results.nil
                     /\ returned.results.Columns = a.columns
                     /\ returned.results.Rows = <<>>
                     /\ returned.err = NoErr

C12_Witness ==
    /\ fetched # Idle
    /\ fetched.answer.kind = "rows"
    /\ fetched.answer.fault = "none"
    /\ ~fetched.answer.closeErr
    /\ fetched.answer.table = <<>>
    /\ fetched.answer.columns = <<"a", "b">>
    /\ fetched.returned.results = QueryResult(<<>>, <<"a", "b">>)
    /\ fetched.returned.err = NoErr

\* the positions of the calls of Query that are rows.Close()
Closes == { i \in DOMAIN fetched.calls : fetched.calls[i] = On("rows", "Close") }

\* C23: whenever Query has obtained a row iterator, it calls Close on it
\* exactly once, as its last call, whether the column names could not be
\* read, a scan failed mid-stream or the loop completed; without an
\* iterator there is nothing it closes; and the only call Query makes on the
\* connection handle is the one that sends the statement.
C23_IteratorClosedOnce ==
    fetched # Idle =>
        /\ IF fetched.answer.kind = "rows"
           THEN /\ Closes = { Len(fetched.calls) }
                /\ fetched.returned.closed
           ELSE /\ Closes = {}
                /\ ~fetched.returned.closed
        /\ \A i \in DOMAIN fetched.calls :
              fetched.calls[i].on = "conn" => fetched.calls[i].method = "QueryxContext"

C23_Witness ==
    /\ fetched # Idle
    /\ fetched.answer.fault = "scan"
    /\ Len(fetched.answer.table) = 2
    /\ ~fetched.answer.closeErr
    /\ fetched.returned.err.kind = "failed to read rows"
    /\ fetched.returned.results.nil
    /\ Closes = { 7 }
    /\ Len(fetched.calls) = 7

\* C27: whenever Query returns a result and a nil error, the row iteration
\* ended at the end of the rows, not on a failure of rows.Next(), and the
\* result has one row for each row delivered.
C27_NoSilentTruncation ==
    (ResultReturned /\ fetched.returned.err = NoErr) =>
        /\ fetched.answer.fault # "next"
        /\ Len(fetched.returned.results.Rows) = Len(fetched.answer.table)

(***************************************************************************)
(* The result formatter (NullString.ToString, NullString.MarshalJSON,      *)
(* QueryResult.ToJSON and QueryResult.ToCSV).  A cell is a NullString, and *)
(* names, cell texts and the bytes written are sequences of characters.    *)
(***************************************************************************)
NULL_TEXT == <<"N","U","L","L">>

\* NullString.ToString
NullStringToString(nullString) ==
    IF ~nullString.Valid THEN NULL_TEXT ELSE nullString.String

\* the concatenation of the texts of a sequence
RECURSIVE Concat(_)
Concat(parts) ==
    IF parts = <<>> THEN <<>> ELSE Head(parts) \o Concat(Tail(parts))

\* strings.Join
RECURSIVE Join(_, _)
Join(elems, sep) ==
    IF elems = <<>> THEN <<>>
    ELSE IF Len(elems) = 1 THEN elems[1]
    ELSE elems[1] \o sep \o Join(Tail(elems), sep)

\* QueryResult.ToCSV, but the line break is written after each row and not
\* before it
ToCSVBreakAfterRow(queryResult) ==
    LET rowValues(row) == [columnIdx \in DOMAIN queryResult.Columns |->
                              NullStringToString(row[queryResult.Columns[columnIdx]])]
    IN  Join(queryResult.Columns, <<",">>)
        \o Concat([rowIdx \in DOMAIN queryResult.Rows |->
                      Join(rowValues(queryResult.Rows[rowIdx]), <<",">>) \o <<"\n">>])

\* QueryResult.ToCSV: the header, then for every row a line break and the
\* row's cells, read by column name in the order of Columns
ToCSV(queryResult) ==
    LET rowValues(row) == [columnIdx \in DOMAIN queryResult.Columns |->
                              NullStringToString(row[queryResult.Columns[columnIdx]])]
    IN  Join(queryResult.Columns, <<",">>)
        \o Concat([rowIdx \in DOMAIN queryResult.Rows |->
                      <<"\n">> \o Join(rowValues(queryResult.Rows[rowIdx]), <<",">>)])

\* encoding/json on a string: the characters between double quotes, with
\* the double quote, the backslash and the line break escaped and, as
\* json.Marshal escapes HTML, < written as \u003c
EscapeChar(c) ==
    CASE c = "\"" -> <<"\\", "\"">>
      [] c = "\\" -> <<"\\", "\\">>
      [] c = "\n" -> <<"\\", "n">>
      [] c = "<"  -> <<"\\", "u", "0", "0", "3", "c">>
      [] OTHER    -> <<c>>

MarshalString(text) ==
    <<"\"">> \o Concat([i \in DOMAIN text |-> EscapeChar(text[i])]) \o <<"\"">>

JSON_NULL == <<"n","u","l","l">>

\* NullString.MarshalJSON, but a NULL cell is marshalled as its text form
MarshalJSONAsText(nullString) == MarshalString(NullStringToString(nullString))

\* NullString.MarshalJSON
MarshalJSON(nullString) ==
    IF nullString.Valid THEN MarshalString(nullString.String) ELSE JSON_NULL

\* the order encoding/json writes the keys of a map in: sorted as strings
\* (the names of the model are lower-case letters)
LetterRank(c) == CHOOSE i \in DOMAIN LowerLetters : LowerLetters[i] = c

RECURSIVE KeyBefore(_, _)
KeyBefore(k1, k2) ==
    IF k1 = <<>> THEN k2 # <<>>
    ELSE IF k2 = <<>> THEN FALSE
    ELSE IF Head(k1) = Head(k2) THEN KeyBefore(Tail(k1), Tail(k2))
    ELSE LetterRank(Head(k1)) < LetterRank(Head(k2))

RECURSIVE SortedKeys(_)
SortedKeys(keys) ==
    IF keys = {} THEN <<>>
    ELSE LET first == CHOOSE k \in keys : \A other \in keys \ {k} : KeyBefore(k, other)
         IN  <<first>> \o SortedKeys(keys \ {first})

\* encoding/json on map[string]*NullString: an object with the keys in
\* sorted order
MarshalRow(row) ==
    LET keys == SortedKeys(DOMAIN row)
    IN  <<"{">>
        \o Join([i \in DOMAIN keys |->
                    MarshalString(keys[i]) \o <<":">> \o MarshalJSON(row[keys[i]])], <<",">>)
        \o <<"}">>

\* QueryResult.ToJSON: json.Marshal of Rows, a slice that is not nil
ToJSON(queryResult) ==
    <<"[">>
    \o Join([rowIdx \in DOMAIN queryResult.Rows |-> MarshalRow(queryResult.Rows[rowIdx])],
            <<",">>)
    \o <<"]">>

\* The results the formatter is given: what Query builds, every row a map
\* with one cell for each column name.
COLUMN_A == <<"a">>

COLUMN_B == <<"b">>

FormatColumnLists ==
    { <<>>, <<COLUMN_A>>, <<COLUMN_A, COLUMN_B>>, <<COLUMN_B, COLUMN_A>>,
      <<COLUMN_A, COLUMN_A>> }

\* NULL, a plain text, the text NULL, the empty text, a text with a comma,
\* and a text of the characters that JSON escapes, a line break among them
FormatCells ==
    { NullCell, TextCell(<<"x">>), TextCell(NULL_TEXT), TextCell(<<>>),
      TextCell(<<"u", ",", "v">>), TextCell(<<"\"", "\\", "\n", "<">>) }

QueryResults ==
    { QueryResult(rows, columns) :
        columns \in FormatColumnLists,
        rows \in UNION { [1..k -> UNION { [Range(cs) -> FormatCells] : cs \in FormatColumnLists }]
                         : k \in 0..MaxRows } }

\* every row has the column names as its keys
WellKeyed(queryResult) ==
    \A r \in DOMAIN queryResult.Rows :
        DOMAIN queryResult.Rows[r] = Range(queryResult.Columns)

\* a formatter is applied once, to any of the results
ToCSVCall ==
    /\ status = "running"
    /\ formatted = Idle
    /\ \E queryResult \in QueryResults :
         /\ WellKeyed(queryResult)
         /\ formatted' = [op |-> "ToCSV", queryResult |-> queryResult,
                          res |-> ToCSV(queryResult)]
    /\ UNCHANGED <<sqlDB, conn, dsnManager, pools, conns, status, call,
                   fetched, built, history>>

ToJSONCall ==
    /\ status = "running"
    /\ formatted = Idle
    /\ \E queryResult \in QueryResults :
         /\ WellKeyed(queryResult)
         /\ formatted' = [op |-> "ToJSON", queryResult |-> queryResult,
                          res |-> ToJSON(queryResult)]
    /\ UNCHANGED <<sqlDB, conn, dsnManager, pools, conns, status, call,
                   fetched, built, history>>

NextFormat ==
    \/ ToCSVCall
    \/ ToJSONCall

SpecFormat == InitResult /\ [][NextFormat]_vars

(***************************************************************************)
(* Properties of the formatter, checked under SpecFormat.                  *)
(***************************************************************************)
\* the pieces of text between the occurrences of the character sep
RECURSIVE SplitOn(_, _)
SplitOn(text, sep) ==
    IF \A i \in DOMAIN text : text[i] # sep THEN <<text>>
    ELSE LET i == CHOOSE k \in DOMAIN text :
                     /\ text[k] = sep
                     /\ \A m \in 1..(k - 1) : text[m] # sep
         IN  <<SubSeq(text, 1, i - 1)>> \o SplitOn(SubSeq(text, i + 1, Len(text)), sep)

\* the comma-separated fields of a line; a line of no columns has none
FieldsOf(line, columnCount) ==
    IF columnCount = 0 /\ line = <<>> THEN <<>> ELSE SplitOn(line, ",")

\* no cell of the result has the character c in its text
NoValueHas(queryResult, c) ==
    \A r \in DOMAIN queryResult.Rows :
        \A name \in DOMAIN queryResult.Rows[r] :
            queryResult.Rows[r][name].Valid
                => c \notin Range(queryResult.Rows[r][name].String)

\* N + 1 lines: the header with the column names in order, then a line for
\* each row in row order, with the M cells of the row in column order, a
\* NULL cell written as NULL
CSVShape(queryResult, res) ==
    LET lines   == SplitOn(res, "\n")
        columns == queryResult.Columns
        written(cell) == IF cell.Valid THEN cell.String ELSE <<"N","U","L","L">>
    IN  /\ Len(lines) = Len(queryResult.Rows) + 1
        /\ FieldsOf(lines[1], Len(columns)) = columns
        /\ \A r \in DOMAIN queryResult.Rows :
              /\ Len(FieldsOf(lines[r + 1], Len(columns))) = Len(columns)
              /\ \A j \in DOMAIN columns :
                    FieldsOf(lines[r + 1], Len(columns))[j]
                        = written(queryResult.Rows[r][columns[j]])

\* C13, as claimed: ToCSV of a result with N rows and M columns and no
\* comma inside a value writes exactly N + 1 lines, the header with the
\* column names in order and one line for each row in row order, each with
\* exactly M comma-separated fields in the order of the header, a NULL cell
\* written as the text NULL.
C13_CSVLinesAndFields ==
    (formatted # Idle /\ formatted.op = "ToCSV"
        /\ NoValueHas(formatted.queryResult, ","))
    => CSVShape(formatted.queryResult, formatted.res)

\* C13, amended: the same, for a result with neither a comma nor a line
\* break inside a value or a column name.
C13_CSVLinesAndFieldsAmended ==
    (formatted # Idle /\ formatted.op = "ToCSV"
        /\ NoValueHas(formatted.queryResult, ",")
        /\ NoValueHas(formatted.queryResult, "\n")
        /\ \A j \in DOMAIN formatted.queryResult.Columns :
              Range(formatted.queryResult.Columns[j]) \cap {",", "\n"} = {})
    => CSVShape(formatted.queryResult, formatted.res)

C13_Witness ==
    /\ formatted # Idle
    /\ formatted.op = "ToCSV"
    /\ formatted.queryResult =
          QueryResult(<< (COLUMN_A :> NullCell) @@ (COLUMN_B :> TextCell(<<"x">>)),
                         (COLUMN_A :> TextCell(<<"x">>)) @@ (COLUMN_B :> NullCell) >>,
                      <<COLUMN_B, COLUMN_A>>)
    /\ formatted.res = <<"b", ",", "a", "\n",
                         "x", ",", "N", "U", "L", "L", "\n",
                         "N", "U", "L", "L", ",", "x">>

\* Reading JSON text back.  A reader returns whether it could read, what it
\* read and the text that is left.
Unread == [ok |-> FALSE, value |-> <<>>, rest |-> <<>>]

Read(value, rest) == [ok |-> TRUE, value |-> value, rest |-> rest]

StartsWith(text, prefix) ==
    Len(text) >= Len(prefix) /\ SubSeq(text, 1, Len(prefix)) = prefix

\* the characters of a JSON string up to its closing quote, escapes undone
RECURSIVE ReadChars(_, _)
ReadChars(text, read) ==
    IF text = <<>> THEN Unread
    ELSE IF Head(text) = "\"" THEN Read(read, Tail(text))
    ELSE IF Head(text) # "\\" THEN ReadChars(Tail(text), Append(read, Head(text)))
    ELSE IF StartsWith(text, <<"\\", "\"">>)
    THEN ReadChars(DropFirst(text, 2), Append(read, "\""))
    ELSE IF StartsWith(text, <<"\\", "\\">>)
    THEN ReadChars(DropFirst(text, 2), Append(read, "\\"))
    ELSE IF StartsWith(text, <<"\\", "n">>)
    THEN ReadChars(DropFirst(text, 2), Append(read, "\n"))
    ELSE IF StartsWith(text, <<"\\", "u", "0", "0", "3", "c">>)
    THEN ReadChars(DropFirst(text, 6), Append(read, "<"))
    ELSE Unread

ReadString(text) ==
    IF StartsWith(text, <<"\"">>) THEN ReadChars(Tail(text), <<>>) ELSE Unread

\* a value of a row object: null, or a string
ReadCell(text) ==
    IF StartsWith(text, <<"n","u","l","l">>)
    THEN Read([null |-> TRUE, text |-> <<>>], DropFirst(text, 4))
    ELSE LET str == ReadString(text)
         IN  IF str.ok THEN Read([null |-> FALSE, text |-> str.value], str.rest)
             ELSE Unread

\* the members of an object after its opening brace, or after a comma
RECURSIVE ReadMembers(_, _)
ReadMembers(text, read) ==
    LET key  == ReadString(text)
        cell == IF key.ok /\ StartsWith(key.rest, <<":">>)
                THEN ReadCell(Tail(key.rest)) ELSE Unread
        members == Append(read, [key |-> key.value, cell |-> cell.value])
    IN  IF ~cell.ok THEN Unread
        ELSE IF StartsWith(cell.rest, <<",">>) THEN ReadMembers(Tail(cell.rest), members)
        ELSE IF StartsWith(cell.rest, <<"}">>) THEN Read(members, Tail(cell.rest))
        ELSE Unread

ReadObject(text) ==
    IF StartsWith(text, <<"{", "}">>) THEN Read(<<>>, DropFirst(text, 2))
    ELSE IF StartsWith(text, <<"{">>) THEN ReadMembers(Tail(text), <<>>)
    ELSE Unread

RECURSIVE ReadObjects(_, _)
ReadObjects(text, read) ==
    LET object  == ReadObject(text)
        objects == Append(read, object.value)
    IN  IF ~object.ok THEN Unread
        ELSE IF StartsWith(object.rest, <<",">>) THEN ReadObjects(Tail(object.rest), objects)
        ELSE IF object.rest = <<"]">> THEN Read(objects, <<>>)
        ELSE Unread

\* a whole text that is an array of objects
ReadArray(text) ==
    IF text = <<"[", "]">> THEN Read(<<>>, <<>>)
    ELSE IF StartsWith(text, <<"[">>) THEN ReadObjects(Tail(text), <<>>)
    ELSE Unread

\* the member of a row object says what the cell is: null for a NULL cell,
\* a string with the text of the cell for any other
CellAsWritten(cell, nullString) ==
    IF nullString.Valid
    THEN ~cell.null /\ cell.text = nullString.String
    ELSE cell.null

\* C14: ToJSON writes the rows as an array with one object for each row, in
\* row order, in which every NULL cell is null and every other cell is a
\* string holding the text of the cell, so that a cell with the text NULL is
\* told from a NULL cell.
C14_JSONRowsAndCells ==
    (formatted # Idle /\ formatted.op = "ToJSON") =>
        LET rows  == formatted.queryResult.Rows
            array == ReadArray(formatted.res)
        IN  /\ array.ok
            /\ Len(array.value) = Len(rows)
            /\ \A r \in DOMAIN rows :
                  LET members == array.value[r]
                  IN  /\ { members[m].key : m \in DOMAIN members } = DOMAIN rows[r]
                      /\ Len(members) = Cardinality(DOMAIN rows[r])
                      /\ \A m \in DOMAIN members :
                            CellAsWritten(members[m].cell, rows[r][members[m].key])

C14_Witness ==
    /\ formatted # Idle
    /\ formatted.op = "ToJSON"
    /\ formatted.queryResult =
          QueryResult(<< (COLUMN_A :> NullCell) @@ (COLUMN_B :> TextCell(NULL_TEXT)),
                         (COLUMN_A :> TextCell(<<"\"", "\\", "\n", "<">>))
                             @@ (COLUMN_B :> NullCell) >>,
                      <<COLUMN_B, COLUMN_A>>)
    /\ ReadArray(formatted.res).value =
          << << [key |-> COLUMN_A, cell |-> [null |-> TRUE, text |-> <<>>]],
                [key |-> COLUMN_B, cell |-> [null |-> FALSE, text |-> NULL_TEXT]] >>,
             << [key |-> COLUMN_A,
                 cell |-> [null |-> FALSE, text |-> <<"\"", "\\", "\n", "<">>]],
                [key |-> COLUMN_B, cell |-> [null |-> TRUE, text |-> <<>>]] >> >>

(***************************************************************************)
(* The DSN builder (DSNOptions.GetDSN, getNetwork and the additional       *)
(* options).  The fields of the options and the DSN are sequences of       *)
(* characters.  Go walks a map in an order of its own choosing, so what is *)
(* built from a map is the set of the texts the orders can give.           *)
(***************************************************************************)
\* fmt.Sprint of an unsigned number: its decimal digits
DigitChars == <<"0","1","2","3","4","5","6","7","8","9">>

RECURSIVE Sprint(_)
Sprint(n) ==
    IF n < 10 THEN <<DigitChars[n + 1]>>
    ELSE Sprint(n \div 10) \o <<DigitChars[(n % 10) + 1]>>

\* url.QueryEscape: letters, digits and - _ . ~ stay, a space becomes +,
\* any other character is written as % and its code in hexadecimal
QueryEscapeChar(c) ==
    CASE IsWord(c) \/ c \in {"-", ".", "~"} -> <<c>>
      [] c = " " -> <<"+">>
      [] c = "/" -> <<"%", "2", "F">>
      [] c = "=" -> <<"%", "3", "D">>
      [] c = "@" -> <<"%", "4", "0">>
      [] c = ":" -> <<"%", "3", "A">>

QueryEscape(text) == Concat([i \in DOMAIN text |-> QueryEscapeChar(text[i])])

\* the sequences that hold every element of a set once
RECURSIVE Orderings(_)
Orderings(elems) ==
    IF elems = {} THEN { <<>> }
    ELSE UNION { { <<x>> \o rest : rest \in Orderings(elems \ {x}) } : x \in elems }

\* DSNOptions.getNetwork
getNetwork(connOptions) ==
    IF connOptions.Host = <<>> THEN <<>>
    ELSE IF connOptions.Host[1] = "@" \/ connOptions.Host[1] = "/"
    THEN <<"u","n","i","x">>
    ELSE <<"t","c","p">>

TRUE_TOKEN == <<"t","r","u","e">>

ONE_TOKEN == <<"1">>

\* QueryPart, but the flavor is not looked at: trueValue stays "true"
QueryPartAlwaysTrue(connOptions, key) ==
    LET value == connOptions.AdditionalOptions[key]
    IN  IF value = <<>>
        THEN key \o <<"=">> \o QueryEscape(TRUE_TOKEN)
        ELSE key \o <<"=">> \o QueryEscape(value)

\* the part that additionalOptionsToQueryParts appends for one entry
QueryPart(connOptions, key) ==
    LET value == connOptions.AdditionalOptions[key]
        trueValue == IF connOptions.Flavor = PostgreSQL THEN ONE_TOKEN ELSE TRUE_TOKEN
    IN  IF value = <<>>
        THEN key \o <<"=">> \o QueryEscape(trueValue)
        ELSE key \o <<"=">> \o QueryEscape(value)

\* DSNOptions.additionalOptionsToQueryParts: nil for no entries (the empty
\* set here), else the parts in any order
additionalOptionsToQueryParts(connOptions) ==
    IF DOMAIN connOptions.AdditionalOptions = {} THEN {}
    ELSE Orderings({ QueryPart(connOptions, key) :
                       key \in DOMAIN connOptions.AdditionalOptions })

\* DSNOptions.additionalOptionsToString
additionalOptionsToString(connOptions) ==
    IF additionalOptionsToQueryParts(connOptions) = {} THEN { <<>> }
    ELSE { <<"?">> \o Join(queryParts, <<"&">>) :
             queryParts \in additionalOptionsToQueryParts(connOptions) }

\* mysql.Config.FormatDSN on a config that is NewConfig() but for User,
\* Passwd, Net, Addr and DBName: [user[:password]@][net[(addr)]]/dbname
FormatDSN(config) ==
    (IF config.User = <<>> THEN <<>>
     ELSE config.User
          \o (IF config.Passwd = <<>> THEN <<>> ELSE <<":">> \o config.Passwd)
          \o <<"@">>)
    \o (IF config.Net = <<>> THEN <<>>
        ELSE config.Net
             \o (IF config.Addr = <<>> THEN <<>>
                 ELSE <<"(">> \o config.Addr \o <<")">>))
    \o <<"/">> \o config.DBName

\* what GetDSN returns
DSN(dsn, err) == [dsn |-> dsn, err |-> err]

\* case MySQL of GetDSN, but the port is written whenever it is set
GetDSNMySQLPortAlways(connOptions) ==
    LET network == getNetwork(connOptions)
        addr    == connOptions.Host
                   \o (IF connOptions.Port # 0
                       THEN <<":">> \o Sprint(connOptions.Port) ELSE <<>>)
        config  == [Addr |-> addr, Net |-> network, DBName |-> connOptions.DatabaseName,
                    User |-> connOptions.User, Passwd |-> connOptions.Password]
    IN  { DSN(FormatDSN(config) \o additionalOptions, NoErr) :
            additionalOptions \in additionalOptionsToString(connOptions) }

\* case MySQL of GetDSN
GetDSNMySQL(connOptions) ==
    LET network == getNetwork(connOptions)
        addr    == connOptions.Host
                   \o (IF connOptions.Port # 0 /\ network = <<"t","c","p">>
                       THEN <<":">> \o Sprint(connOptions.Port) ELSE <<>>)
        config  == [Addr |-> addr, Net |-> network, DBName |-> connOptions.DatabaseName,
                    User |-> connOptions.User, Passwd |-> connOptions.Password]
    IN  { DSN(FormatDSN(config) \o additionalOptions, NoErr) :
            additionalOptions \in additionalOptionsToString(connOptions) }

HOST_KEY == <<"h","o","s","t">>

PORT_KEY == <<"p","o","r","t">>

DBNAME_KEY == <<"d","b","n","a","m","e">>

USER_KEY == <<"u","s","e","r">>

PASSWORD_KEY == <<"p","a","s","s","w","o","r","d">>

\* the map options of case PostgreSQL: the port only when it is set
PostgresOptions(connOptions) ==
    [key \in {HOST_KEY, DBNAME_KEY, USER_KEY, PASSWORD_KEY}
             \cup (IF connOptions.Port # 0 THEN {PORT_KEY} ELSE {}) |->
        CASE key = HOST_KEY     -> connOptions.Host
          [] key = PORT_KEY     -> Sprint(connOptions.Port)
          [] key = DBNAME_KEY   -> connOptions.DatabaseName
          [] key = USER_KEY     -> connOptions.User
          [] key = PASSWORD_KEY -> connOptions.Password]

\* the parts after the core ones: none when additionalOptionsToQueryParts
\* returns nil
AdditionalParts(connOptions) ==
    IF additionalOptionsToQueryParts(connOptions) = {} THEN { <<>> }
    ELSE additionalOptionsToQueryParts(connOptions)

\* case PostgreSQL of GetDSN, but an entry of options is written whatever
\* its value
GetDSNPostgreSQLKeepingEmpty(connOptions) ==
    LET options == PostgresOptions(connOptions)
        written == { key \o <<"=">> \o options[key] : key \in DOMAIN options }
    IN  { DSN(Join(outputParts \o additionalOptions, <<" ">>), NoErr) :
            outputParts \in Orderings(written),
            additionalOptions \in AdditionalParts(connOptions) }

\* case PostgreSQL of GetDSN
GetDSNPostgreSQL(connOptions) ==
    LET options == PostgresOptions(connOptions)
        written == { key \o <<"=">> \o options[key] :
                       key \in { k \in DOMAIN options : options[k] # <<>> } }
    IN  { DSN(Join(outputParts \o additionalOptions, <<" ">>), NoErr) :
            outputParts \in Orderings(written),
            additionalOptions \in AdditionalParts(connOptions) }

\* DSNOptions.GetDSN
GetDSN(connOptions) ==
    CASE connOptions.Flavor = MySQL      -> GetDSNMySQL(connOptions)
      [] connOptions.Flavor = PostgreSQL -> GetDSNPostgreSQL(connOptions)
      [] OTHER -> { DSN(<<>>, Err("Unknown database type", "", connOptions.Flavor)) }

\* The options a DSN is asked of.
Hosts == { <<>>, <<"h">>, <<"/", "s">>, <<"@", "s">> }

Ports == { 0, 3306 }

OPTION_K == <<"k">>

OPTION_S == <<"s">>

\* no value, a plain value, a value url.QueryEscape changes, and the value
\* that is the PostgreSQL token
OptionValues == { <<>>, <<"v">>, <<"/", "c">>, ONE_TOKEN }

AdditionalOptionMaps ==
    UNION { [keys -> OptionValues] : keys \in SUBSET {OPTION_K, OPTION_S} }

AllDSNOptions ==
    [Flavor : Flavors, Host : Hosts, DatabaseName : { <<>>, <<"d">> },
     User : { <<>>, <<"u">> }, Password : { <<>>, <<"p">> }, Port : Ports,
     AdditionalOptions : AdditionalOptionMaps]

\* GetDSN, once on any of the options
GetDSNCall ==
    /\ status = "running"
    /\ built = Idle
    /\ \E connOptions \in AllDSNOptions :
         \E out \in GetDSN(connOptions) :
            built' = [op |-> "GetDSN", connOptions |-> connOptions,
                      dsn |-> out.dsn, err |-> out.err]
    /\ UNCHANGED <<sqlDB, conn, dsnManager, pools, conns, status, call,
                   fetched, formatted, history>>

NextDSN == GetDSNCall

SpecDSN == InitResult /\ [][NextDSN]_vars

(***************************************************************************)
(* Properties of the DSN builder, checked under SpecDSN.                   *)
(***************************************************************************)
\* GetDSN has returned a DSN for options of the flavor
BuiltFor(flavor) ==
    /\ built # Idle
    /\ built.connOptions.Flavor = flavor
    /\ built.err = NoErr

Contains(text, sub) ==
    \E i \in 1..(Len(text) - Len(sub) + 1) : SubSeq(text, i, i + Len(sub) - 1) = sub

\* the port of the model's options, as it is written
PORT_3306 == <<"3","3","0","6">>

\* the host names a TCP endpoint: it is not empty and does not begin with
\* / or @
HostIsTCP(connOptions) ==
    /\ connOptions.Host # <<>>
    /\ connOptions.Host[1] \notin {"/", "@"}

\* the MySQL DSN up to its options
BaseOf(dsn) == SplitOn(dsn, "?")[1]

\* the address of a MySQL DSN: what stands between ( and ), if anything
HasAddress(dsn) == "(" \in Range(BaseOf(dsn))

AddressOf(dsn) == SplitOn(SplitOn(BaseOf(dsn), "(")[2], ")")[1]

\* the transport of a MySQL DSN: the letters right before the (
RECURSIVE LettersAtEnd(_)
LettersAtEnd(text) ==
    IF text = <<>> \/ text[Len(text)] \notin Range(LowerLetters) THEN <<>>
    ELSE Append(LettersAtEnd(SubSeq(text, 1, Len(text) - 1)), text[Len(text)])

TransportOf(dsn) == LettersAtEnd(SplitOn(BaseOf(dsn), "(")[1])

\* C15: for MySQL the port is in the address, as host:port, exactly when
\* Port is not 0 and the host is not empty and does not begin with / or @
\* (the transport is then tcp); a host beginning with / or @ selects the
\* unix transport and an empty host selects no transport, and in both cases
\* no port appears.
C15_MySQLPortOnlyOverTCP ==
    BuiltFor(MySQL) =>
        LET o == built.connOptions
        IN  /\ HostIsTCP(o) =>
                  /\ HasAddress(built.dsn)
                  /\ TransportOf(built.dsn) = <<"t","c","p">>
                  /\ o.Port # 0 => AddressOf(built.dsn) = o.Host \o <<":">> \o PORT_3306
                  /\ o.Port = 0 => AddressOf(built.dsn) = o.Host
            /\ (o.Host # <<>> /\ ~HostIsTCP(o)) =>
                  /\ HasAddress(built.dsn)
                  /\ TransportOf(built.dsn) = <<"u","n","i","x">>
                  /\ AddressOf(built.dsn) = o.Host
            /\ o.Host = <<>> =>
                  /\ ~HasAddress(built.dsn)
                  /\ \E credentials \in { <<>>, <<"u", "@">>, <<"u", ":", "p", "@">> } :
                        BaseOf(built.dsn) = credentials \o <<"/">> \o o.DatabaseName
            /\ Contains(BaseOf(built.dsn), PORT_3306) <=> (o.Port # 0 /\ HostIsTCP(o))

C15_Witness ==
    /\ BuiltFor(MySQL)
    /\ built.connOptions.Port = 3306
    /\ built.connOptions.Host = <<"h">>
    /\ BaseOf(built.dsn)
         = <<"u", ":", "p", "@", "t", "c", "p", "(", "h", ":", "3", "3", "0", "6", ")",
             "/", "d">>

\* the key=value pairs of a PostgreSQL DSN
PairsOf(dsn) == IF dsn = <<>> THEN <<>> ELSE SplitOn(dsn, " ")

\* the values the pairs give to a key
ValuesOf(pairs, key) ==
    { DropFirst(pairs[i], Len(key) + 1) :
        i \in { j \in DOMAIN pairs : StartsWith(pairs[j], key \o <<"=">>) } }

\* the DSN names the port
PortWritten ==
    IF built.connOptions.Flavor = MySQL
    THEN Contains(BaseOf(built.dsn), PORT_3306)
    ELSE ValuesOf(PairsOf(built.dsn), <<"p","o","r","t">>) # {}

\* C16: for both flavors the DSN has the port only when Port is not 0 and
\* the host selects the TCP transport; for PostgreSQL too no port is
\* written when the host is empty or is a Unix-socket host.
C16_PortOnlyOverTCP ==
    (BuiltFor(MySQL) \/ BuiltFor(PostgreSQL)) =>
        (PortWritten => (built.connOptions.Port # 0 /\ HostIsTCP(built.connOptions)))

\* the options the DSN gives after the core of it: for MySQL what follows
\* the ?, split at &; for PostgreSQL the pairs
OptionsWritten ==
    IF built.connOptions.Flavor = MySQL
    THEN IF "?" \in Range(built.dsn)
         THEN SplitOn(DropFirst(built.dsn, Len(BaseOf(built.dsn)) + 1), "&")
         ELSE <<>>
    ELSE PairsOf(built.dsn)

\* C17: for PostgreSQL every additional option is written as a raw
\* key=value pair: a value that is not empty stands in the DSN exactly as it
\* was given, not URL-escaped, and an empty value stands as 1.
C17_PostgresOptionsRaw ==
    BuiltFor(PostgreSQL) =>
        \A key \in DOMAIN built.connOptions.AdditionalOptions :
            LET value == built.connOptions.AdditionalOptions[key]
            IN  ValuesOf(PairsOf(built.dsn), key)
                    = { IF value = <<>> THEN <<"1">> ELSE value }

\* the token that stands for an empty value
SubstituteToken(flavor) ==
    IF flavor = MySQL THEN <<"t","r","u","e">> ELSE <<"1">>

\* C18: an additional option whose value is the empty string is written
\* with the value true for MySQL and 1 for PostgreSQL; an option whose
\* value is not empty is written once and never gets the substitute token
\* (unless the token is the value it was given).
C18_EmptyValueToken ==
    (BuiltFor(MySQL) \/ BuiltFor(PostgreSQL)) =>
        \A key \in DOMAIN built.connOptions.AdditionalOptions :
            LET value   == built.connOptions.AdditionalOptions[key]
                token   == SubstituteToken(built.connOptions.Flavor)
                written == ValuesOf(OptionsWritten, key)
            IN  /\ Cardinality(written) = 1
                /\ value = <<>> => written = {token}
                /\ (value # <<>> /\ value # token) => token \notin written

C18_Witness ==
    /\ BuiltFor(PostgreSQL)
    /\ built.connOptions.AdditionalOptions = (OPTION_K :> <<>>) @@ (OPTION_S :> <<"v">>)
    /\ ValuesOf(OptionsWritten, OPTION_K) = { <<"1">> }
    /\ ValuesOf(OptionsWritten, OPTION_S) = { <<"v">> }

\* the four options of the core, by the key each is written under
CoreOptions(connOptions) ==
    { [key |-> <<"h","o","s","t">>, value |-> connOptions.Host],
      [key |-> <<"u","s","e","r">>, value |-> connOptions.User],
      [key |-> <<"p","a","s","s","w","o","r","d">>, value |-> connOptions.Password],
      [key |-> <<"d","b","n","a","m","e">>, value |-> connOptions.DatabaseName] }

\* C19: the PostgreSQL DSN is the set of space-separated key=value pairs
\* that has host, user, password and dbname each exactly when its value is
\* not empty (no password= for an empty password) and one pair for every
\* additional option whatever its value; no pair stands twice and, but for
\* the port, there is no other pair; with no option at all the DSN is the
\* empty string.
C19_PostgresPairs ==
    BuiltFor(PostgreSQL) =>
        LET o     == built.connOptions
            pairs == PairsOf(built.dsn)
            keys  == { c.key : c \in CoreOptions(o) } \cup DOMAIN o.AdditionalOptions
                        \cup { <<"p","o","r","t">> }
        IN  /\ \A c \in CoreOptions(o) :
                  ValuesOf(pairs, c.key) = IF c.value = <<>> THEN {} ELSE {c.value}
            /\ \A key \in DOMAIN o.AdditionalOptions :
                  Cardinality(ValuesOf(pairs, key)) = 1
            /\ \A i \in DOMAIN pairs : \E key \in keys : StartsWith(pairs[i], key \o <<"=">>)
            /\ Cardinality(Range(pairs)) = Len(pairs)
            /\ ((\A c \in CoreOptions(o) : c.value = <<>>)
                    /\ o.Port = 0 /\ DOMAIN o.AdditionalOptions = {})
                 => built.dsn = <<>>

C19_Witness ==
    /\ BuiltFor(PostgreSQL)
    /\ built.connOptions.Password = <<>>
    /\ built.connOptions.Port = 0
    /\ built.connOptions.AdditionalOptions = (OPTION_K :> <<>>)
    /\ Range(PairsOf(built.dsn))
         = { <<"h","o","s","t","=","h">>, <<"u","s","e","r","=","u">>,
             <<"d","b","n","a","m","e","=","d">>, <<"k","=","1">> }

(***************************************************************************)
(* The query history of the input box (ui.QueryHistory): a ring of size    *)
(* slots, the index written next and the index read last.  Slot i of the   *)
(* Go slice is queryList[i + 1] here.                                      *)
(***************************************************************************)
\* NewQueryHistory
NewQueryHistory(size) ==
    [queryList |-> [i \in 1..size |-> ""], size |-> size, writeIdx |-> 0, readIdx |-> 0]

\* QueryHistory.changeIdx
changeIdx(queryHistory, idx, diff) ==
    IF diff > queryHistory.size - 1 THEN idx
    ELSE LET moved   == idx + diff
             raised  == IF moved < 0 THEN queryHistory.size + moved ELSE moved
         IN  IF raised >= queryHistory.size THEN raised - queryHistory.size ELSE raised

\* QueryHistory.IsPositionSet
IsPositionSet(queryHistory) == queryHistory.readIdx # -1

\* QueryHistory.ResetPosition, but to the read index a new history starts with
ResetPositionToStart(queryHistory) == [queryHistory EXCEPT !.readIdx = 0]

\* QueryHistory.ResetPosition
ResetPosition(queryHistory) == [queryHistory EXCEPT !.readIdx = -1]

\* QueryHistory.AddEntry, but the write index wraps once it exceeds the
\* length, not when it is about to
AddEntryWrappingLate(queryHistory, entry) ==
    LET reset   == ResetPosition(queryHistory)
        written == [reset EXCEPT !.queryList[reset.writeIdx + 1] = entry,
                                 !.writeIdx = reset.writeIdx + 1]
    IN  IF written.writeIdx > written.size
        THEN [written EXCEPT !.writeIdx = 0]
        ELSE written

\* QueryHistory.AddEntry
AddEntry(queryHistory, entry) ==
    LET reset   == ResetPosition(queryHistory)
        written == [reset EXCEPT !.queryList[reset.writeIdx + 1] = entry,
                                 !.writeIdx = reset.writeIdx + 1]
    IN  IF written.writeIdx >= written.size
        THEN [written EXCEPT !.writeIdx = 0]
        ELSE written

\* what a read returns: the history it leaves and the entry
Entry(queryHistory, entry) == [queryHistory |-> queryHistory, entry |-> entry]

\* QueryHistory.GetPrevEntry, but the step onto an empty slot is not undone
GetPrevEntryNoUndo(queryHistory) ==
    IF queryHistory.readIdx = queryHistory.writeIdx
    THEN Entry(queryHistory, "")
    ELSE LET from  == IF ~IsPositionSet(queryHistory)
                      THEN queryHistory.writeIdx ELSE queryHistory.readIdx
             moved == [queryHistory EXCEPT !.readIdx = changeIdx(queryHistory, from, -1)]
         IN  Entry(moved, moved.queryList[moved.readIdx + 1])

\* QueryHistory.GetPrevEntry
GetPrevEntry(queryHistory) ==
    IF queryHistory.readIdx = queryHistory.writeIdx
    THEN Entry(queryHistory, "")
    ELSE LET from   == IF ~IsPositionSet(queryHistory)
                       THEN queryHistory.writeIdx ELSE queryHistory.readIdx
             moved  == [queryHistory EXCEPT !.readIdx = changeIdx(queryHistory, from, -1)]
             result == moved.queryList[moved.readIdx + 1]
             undone == IF result = ""
                       THEN [moved EXCEPT !.readIdx = changeIdx(moved, moved.readIdx, 1)]
                       ELSE moved
         IN  Entry(undone, undone.queryList[undone.readIdx + 1])

\* QueryHistory.GetNextEntry
GetNextEntry(queryHistory) ==
    IF ~IsPositionSet(queryHistory)
    THEN Entry(queryHistory, "")
    ELSE IF queryHistory.readIdx = queryHistory.writeIdx - 1
    THEN Entry(queryHistory, "")
    ELSE LET moved == [queryHistory EXCEPT
                          !.readIdx = changeIdx(queryHistory, queryHistory.readIdx, 1)]
         IN  Entry(moved, moved.queryList[moved.readIdx + 1])

\* the queries a user commits
Entries == {"a", "b"}

\* The history with what is known of its past:
\*   queryHistory  the QueryHistory
\*   op, entry     the last call and the entry it returned
\*   added         every entry added so far, oldest first
\*   run           how many GetPrevEntry calls were made in a row since the
\*                 position was last reset by AddEntry or ResetPosition
\*                 (counted up to size + 2), -1 once GetNextEntry was
\*                 called in between
Past(queryHistory, op, entry, added, run) ==
    [queryHistory |-> queryHistory, op |-> op, entry |-> entry, added |-> added,
     run |-> run]

InitHistory ==
    /\ ManagerInit
    /\ dsnManager = [Flavor |-> MySQL, SafeMode |-> FALSE, DatabaseName |-> "test"]
    /\ fetched = Idle
    /\ formatted = Idle
    /\ built = Idle
    /\ \E size \in 1..MaxSize :
         history = Past(NewQueryHistory(size), "NewQueryHistory", "", <<>>, 0)

HistoryStep(past) ==
    /\ history' = past
    /\ UNCHANGED <<sqlDB, conn, dsnManager, pools, conns, status, call,
                   fetched, formatted, built>>

AddEntryCall ==
    /\ status = "running"
    /\ Len(history.added) < MaxEntries
    /\ \E entry \in Entries :
         HistoryStep(Past(AddEntry(history.queryHistory, entry), "AddEntry", "",
                          Append(history.added, entry), 0))

GetPrevEntryCall ==
    /\ status = "running"
    /\ LET r    == GetPrevEntry(history.queryHistory)
           more == IF history.run < history.queryHistory.size + 2
                   THEN history.run + 1 ELSE history.run
       IN  HistoryStep(Past(r.queryHistory, "GetPrevEntry", r.entry, history.added,
                            IF history.run = -1 THEN -1 ELSE more))

GetNextEntryCall ==
    /\ status = "running"
    /\ LET r == GetNextEntry(history.queryHistory)
       IN  HistoryStep(Past(r.queryHistory, "GetNextEntry", r.entry, history.added, -1))

ResetPositionCall ==
    /\ status = "running"
    /\ HistoryStep(Past(ResetPosition(history.queryHistory), "ResetPosition", "",
                        history.added, 0))

NextHistory ==
    \/ AddEntryCall
    \/ GetPrevEntryCall
    \/ GetNextEntryCall
    \/ ResetPositionCall

SpecHistory == InitHistory /\ [][NextHistory]_vars

(***************************************************************************)
(* Properties of the query history, checked under SpecHistory.             *)
(***************************************************************************)
\* the number of entries the history holds
Held == IF Len(history.added) < history.queryHistory.size
        THEN Len(history.added) ELSE history.queryHistory.size

\* the n-th newest of the entries added
Newest(n) == history.added[Len(history.added) - n + 1]

\* the last call was the n-th GetPrevEntry in a row from a reset position,
\* on a history that holds at least one entry
PrevRun(n) ==
    /\ history.op = "GetPrevEntry"
    /\ Held >= 1
    /\ history.run = n

\* C20, as claimed: on a history holding k entries, 1 <= k <= size,
\* successive GetPrevEntry calls return the entries from the newest to the
\* oldest, and the call made after the oldest was returned returns the
\* empty string.
C20_PrevNewestToOldest ==
    /\ \A n \in 1..Held : PrevRun(n) => history.entry = Newest(n)
    /\ PrevRun(Held + 1) => history.entry = ""

\* C20, amended: the call made after the oldest entry was returned returns
\* the empty string when the history is full (k = size), and the oldest
\* entry once more when it is not (k < size).
C20_PrevNewestToOldestAmended ==
    /\ \A n \in 1..Held : PrevRun(n) => history.entry = Newest(n)
    /\ PrevRun(Held + 1) =>
          history.entry = IF Held = history.queryHistory.size THEN "" ELSE Newest(Held)

C20_Witness ==
    /\ PrevRun(Held + 1)
    /\ history.queryHistory.size = 3
    /\ history.added = <<"a", "b">>
    /\ history.entry = "a"

\* the slot that holds the n-th newest entry, 1 <= n <= Held
SlotOf(queryHistory, n) == (queryHistory.writeIdx + queryHistory.size - n) % queryHistory.size

\* the read position of the history is on its n-th newest entry
PositionAt(n) ==
    /\ n \in 1..Held
    /\ history.queryHistory.readIdx = SlotOf(history.queryHistory, n)

\* C21: every GetNextEntry made with the read position on the n-th newest
\* entry, n >= 2, returns the (n-1)-th newest entry and moves the position
\* onto it; made with the position on the newest entry, or with no position
\* set, it returns the empty string and leaves the history as it was,
\* wherever the write index is.
C21_NextNewer ==
    [][history'.op = "GetNextEntry" =>
          /\ \A n \in 2..Held : PositionAt(n) =>
                /\ history'.entry = Newest(n - 1)
                /\ history'.queryHistory.readIdx = SlotOf(history.queryHistory, n - 1)
          /\ (PositionAt(1) \/ ~IsPositionSet(history.queryHistory)) =>
                /\ history'.entry = ""
                /\ history'.queryHistory = history.queryHistory]_vars

\* what an AddEntry(e) step does to the history: the read position is
\* reset, only the slot at the write index changes, it now holds e, and
\* what it held before was an empty slot or, on a full history, the oldest
\* entry
AddEntryStep ==
    history'.op = "AddEntry" =>
        LET before == history.queryHistory
            after  == history'.queryHistory
            e      == history'.added[Len(history'.added)]
        IN  /\ ~IsPositionSet(after)
            /\ after.queryList[before.writeIdx + 1] = e
            /\ \A i \in 1..before.size :
                  i # before.writeIdx + 1 => after.queryList[i] = before.queryList[i]
            /\ before.queryList[before.writeIdx + 1]
                  = IF Held = before.size THEN Newest(Held) ELSE ""

\* the last call was the n-th GetPrevEntry in a row since the last AddEntry
\* or ResetPosition
PrevAfterAdd(n) ==
    /\ history.op = "GetPrevEntry"
    /\ history.added # <<>>
    /\ history.run = n

\* the GetPrevEntry calls that follow an AddEntry(e) return e first and then
\* the other entries held, newest first, each with the read position on it
NewestFirst ==
    \A n \in 1..Held : PrevAfterAdd(n) =>
        /\ history.entry = Newest(n)
        /\ PositionAt(n)

\* C22, as claimed: AddEntry(e) in any state resets the read position and
\* overwrites only the oldest slot once the history is full; the following
\* GetPrevEntry calls return e first, then the other entries held newest
\* first, at most size entries and never an overwritten one, and after them
\* the empty string.
C22_AddThenPrev ==
    /\ [][AddEntryStep]_vars
    /\ [](NewestFirst
           /\ \A n \in (Held + 1)..(MaxSize + 3) : PrevAfterAdd(n) => history.entry = "")

\* C22, amended: after the entries held, the following GetPrevEntry calls
\* return the empty string when the history is full and the oldest entry
\* held again when it is not.
C22_AddThenPrevAmended ==
    /\ [][AddEntryStep]_vars
    /\ [](NewestFirst
           /\ \A n \in (Held + 1)..(MaxSize + 3) : PrevAfterAdd(n) =>
                 history.entry = IF Held = history.queryHistory.size
                                 THEN "" ELSE Newest(Held))

C22_Witness ==
    /\ PrevAfterAdd(3)
    /\ history.queryHistory.size = 2
    /\ history.added = <<"a", "b", "b">>
    /\ history.queryHistory.queryList = <<"b", "b">>
    /\ history.entry = ""

\* the slots that the next GetPrevEntry and the next GetNextEntry read
SlotsRead ==
    LET queryHistory == history.queryHistory
    IN  (IF queryHistory.readIdx # queryHistory.writeIdx
         THEN { GetPrevEntry(queryHistory).queryHistory.readIdx } ELSE {})
        \cup
        (IF IsPositionSet(queryHistory)
              /\ queryHistory.readIdx # queryHistory.writeIdx - 1
         THEN { GetNextEntry(queryHistory).queryHistory.readIdx } ELSE {})

\* C30: in a history of size >= 1, whatever calls were made, the write
\* index is in 0..size-1 and the read index in -1..size-1, the list has size
\* slots, and the slot that the next AddEntry writes and the slots that the
\* next GetPrevEntry and GetNextEntry read are slots of the list.
C30_IndexesInRange ==
    LET queryHistory == history.queryHistory
    IN  /\ queryHistory.size >= 1
        /\ DOMAIN queryHistory.queryList = 1..queryHistory.size
        /\ queryHistory.writeIdx \in 0..(queryHistory.size - 1)
        /\ queryHistory.readIdx \in -1..(queryHistory.size - 1)
        /\ SlotsRead \subseteq 0..(queryHistory.size - 1)

C30_Witness ==
    /\ history.op = "GetNextEntry"
    /\ history.queryHistory.size = 2
    /\ Len(history.added) = 3
    /\ history.queryHistory.writeIdx = 1
    /\ history.queryHistory.readIdx = 0
    /\ history.entry = history.added[3]

====
